----------------------------- MODULE OtherWriter -----------------------------
(***************************************************************************)
(* The publisher of ChatPublisher among things it does not control: while  *)
(* it is down, a second server writes the same feed, and the operator      *)
(* loses or damages the checkpoint file. The publisher must find out when  *)
(* it resumes and stop rather than overwrite (README "Restarts and one     *)
(* writer", src/test/restart.test.ts "one writer").                        *)
(***************************************************************************)
EXTENDS ChatPublisher

CONSTANT AtRestOnly   \* whether all this happens only while no recorded entry is in flight

ASSUME AtRestOnlyAssumption == AtRestOnly \in BOOLEAN

\* Nothing the checkpoint holds still waits to reach its slot.
AtRest == HasCheckpoint => InFlight(disk) = {}

Meddles == state = "down" /\ (AtRestOnly => AtRest)

\* A second server, resumed from the feed, writes the first slot it finds empty.
OtherWrites ==
  /\ Meddles
  /\ \E s \in Slot, e \in Foreign :
       /\ feed[s] = NoEntry /\ \A t \in 0 .. s - 1 : feed[t] # NoEntry
       /\ feed' = [feed EXCEPT ![s] = e]
  /\ UNCHANGED <<life, saving, loop, batch, intake, slots, task, record, sent>>

\* The checkpoint file is gone, or holds something that is not a checkpoint.
CheckpointHarmed ==
  /\ Meddles /\ HasCheckpoint
  /\ disk' \in {NoCheckpoint, Damaged}
  /\ UNCHANGED <<life, saving, loop, batch, intake, slots, task, chain, snapshot, swarm>>

OtherNext == Next \/ OtherWrites \/ CheckpointHarmed

OtherSpec == Init /\ [][OtherNext]_vars

-----------------------------------------------------------------------------
(* README: "Anything else means the slot is taken, so the server stops publishing that chat [...] the server stops
   rather than overwrite." A slot another writer filled keeps what that writer put there. *)
NeverSendsOver == [][\A w \in sent' \ sent : feed[w[1]] \notin Foreign]_vars

(* A damaged checkpoint stops the chat: nothing is sent to any slot from there on, in this boot or later ones
   (restart.test.ts, "blocks the chat loudly and never starts it at 0"). *)
DamagedStaysSilent == [][disk = Damaged => sent' = sent /\ disk' = Damaged]_vars
=============================================================================
