----------------------------- MODULE MCStartup -----------------------------
(* Values for the constants of Startup.                                    *)
EXTENDS Startup

\* No flags, flags that the first Parse knows, and those of
\* config/manager/manager.yaml.
Manifests == {{}, {"csi-address", "timeout"}, {"leader-elect"}}
Elected == {{"leader-elect"}}
=============================================================================
