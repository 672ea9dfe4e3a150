-------------------------- MODULE MCAuthSessions --------------------------
(* Small instances of AuthSessions for TLC. *)
EXTENDS AuthSessions, TLC

CONSTANTS q1, q2, x1, x2

(* Three pairs for the app, or one pair and two resets: the handlers of      *)
(* tokens do not read what the handlers of passwords and phrases write.      *)
AppOrRecovery == 
    {[pairs |-> 3, resets |-> 0], [pairs |-> 1, resets |-> 2]}

(* Calls are interchangeable; so are business requests. *)
CallSymmetry == Permutations({q1, q2}) \cup Permutations({x1, x2})
===========================================================================
