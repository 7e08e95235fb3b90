---------------------------- MODULE MCCollabRelay ----------------------------
(* Instances of CollabRelay for model checking. *)
EXTENDS CollabRelay, TLC

CONSTANTS c1, c2, s1, s2, s3, u1, u2

\* A single client.
OneSocket == s1 :> c1

\* One connection for each of two clients.
TwoSockets == (s1 :> c1) @@ (s2 :> c2)

\* The second client may reconnect while its old connection is closing.
ThreeSockets == TwoSockets @@ (s3 :> c2)
=============================================================================
