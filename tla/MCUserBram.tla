------------------------------ MODULE MCUserBram ------------------------------
(* The program memory of the code, on the first and the last word it can    *)
(* hold without aliases.                                                    *)
EXTENDS UserBram

MCWithin == {0, 1020}
MCLanes == {0, 3}
MCBytes == {0, 1}
=============================================================================
