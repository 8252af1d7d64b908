--------------------------- MODULE MCContextSwitch --------------------------
(* Two tasks and the boot context, two values for each register; the       *)
(* exceptions a processor raises.  29 is raised in guests with encrypted   *)
(* state only, 31 and the other reserved vectors never.                    *)
EXTENDS ContextSwitch

CONSTANTS t1, t2, boot

MCTasks == {t1, t2}
MCVersions == {1, 2}
MCVectors == (0..8) \cup (10..14) \cup (16..21) \cup {28, 30}
MCVectorsSev == {29}
MCErrorCodes == {0, 5}
=============================================================================
