--------------------------- MODULE MCGroupSystem ---------------------------
(* Values for the constants of GroupSystem that a cfg cannot write.        *)
EXTENDS GroupClaims, TLC

CONSTANTS m1, m2

OneMember == {m1}
TwoMembers == {m1, m2}

AllOfOne == {{m1}}
AllOfTwo == {{m1, m2}}
AnyOfTwo == {{m1}, {m1, m2}}

MemberSymmetry == Permutations({m1, m2})
=============================================================================
