-------------------------- MODULE MCPersistentRamfs --------------------------
(* Small instances of PersistentRamfs. *)
EXTENDS PersistentRamfs, TLC

CONSTANTS README, NOTE, LOG, TEST, BAD,  \* names
          plain, edited, huge            \* contents

MCValidNames == {README, NOTE, LOG, TEST}
MCNames == MCValidNames \cup {BAD}
MCShortContents == {plain, edited}
MCContents == MCShortContents \cup {huge}
MCBuiltin == <<README>>

(* Two names the kernel knows nothing about. *)
MCSymmetry == Permutations({NOTE, LOG})

==============================================================================
