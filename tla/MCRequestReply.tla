--------------------------- MODULE MCRequestReply ---------------------------
(* Small instances of RequestReply for TLC. *)
EXTENDS RequestReply, TLC

\* Requests are interchangeable: no definition names one of them.
RequestSymmetry == Permutations(Requests)

\* Operations whose replies must not be confused: one whose payload may be unreadable
\* and one with the misaddressed failure reply among them.
ThreeOperations == {"Register", "Login", "GetProfile"}
LoginOnly == {"Login"}
=============================================================================
