--------------------------- MODULE MCChatPublisher ---------------------------
(* Small instances of ChatPublisher for TLC. *)
EXTENDS ChatPublisher, TLC

Symmetry == Permutations(Message)

-----------------------------------------------------------------------------
(* TLC's SYMMETRY is not sound for liveness, so the liveness run numbers its messages and breaks the symmetry by  *)
(* hand: messages that occur nowhere yet differ in nothing, so the one offered next may as well be the least.     *)

InEntries(entries) == {entries[s].msg : s \in {t \in Slot : entries[t] # NoEntry}}

Occurring ==
  UNION {queuedIds, publishedIds, InEntries(entry), InEntries(feed), {w[2].msg : w \in sent},
         IF HasCheckpoint THEN InEntries(disk.entries) ELSE {},
         IF snapshot # NoCheckpoint THEN InEntries(snapshot.entries) ELSE {}}

NewOnesInOrder == \A m \in queuedIds' \ Occurring : \A k \in Message : k < m => k \in Occurring

OrderedFairSpec == Init /\ [][Next /\ NewOnesInOrder]_vars /\ Fairness
=============================================================================
