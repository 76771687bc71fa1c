----------------------------- MODULE PeerSession ------------------------------
(***************************************************************************)
(* What a link registry promises about one peer, whatever dials, accepts   *)
(* and closes run: a session that is alive is given up only for a          *)
(* preferred one, and is forgotten only after it has died.                 *)
(***************************************************************************)
EXTENDS LinkPreference

CONSTANTS Self, Peers, Levels, Links, None

VARIABLE session   \* of each peer: its link with level, initiator and state, or NoSession

NoSession == [id |-> None, level |-> 0, initiator |-> FALSE, st |-> "none"]

Session == [id : Links, level : Levels, initiator : BOOLEAN, st : {"alive", "dead"}]

Init == session = [p \in Peers |-> NoSession]

\* A link becomes the peer's session, dead already if it died while being set up.
Establish(p) ==
  LET s == session'[p] IN
  /\ s \in Session
  /\ \A q \in Peers : session[q].id # s.id
  /\ session[p].id # None => linkIsPreferred(Self, p, s, session[p])
  /\ session' = [session EXCEPT ![p] = s]

Die(p) ==
  /\ session[p].st = "alive"
  /\ session' = [session EXCEPT ![p].st = "dead"]

Forget(p) ==
  /\ session[p].st = "dead"
  /\ session' = [session EXCEPT ![p] = NoSession]

Next ==
  \E p \in Peers :
    \/ Establish(p)
    \/ Die(p)
    \/ Forget(p)

Spec == Init /\ [][Next]_session

=============================================================================
