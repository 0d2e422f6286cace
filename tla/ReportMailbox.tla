---------------------------- MODULE ReportMailbox ----------------------------
(***************************************************************************)
(* What is promised of the reports of background jobs: each is posted when *)
(* its job settles, waits, and is handed over once, in batches and in the  *)
(* order they were posted.                                                 *)
(***************************************************************************)
EXTENDS Naturals, Sequences

CONSTANT Reports

VARIABLES
  waiting,  \* reports not handed over, oldest first
  handed    \* reports handed over, oldest first

mailboxVars == <<waiting, handed>>

IsPosted(r) == \E i \in DOMAIN (handed \o waiting) : (handed \o waiting)[i] = r

MailboxInit == waiting = <<>> /\ handed = <<>>

Post(r) ==
  /\ ~IsPosted(r)
  /\ waiting' = Append(waiting, r)
  /\ UNCHANGED handed

(* A report that finds its reader free is handed over where it is posted.  *)
PostAndHand(r) ==
  /\ ~IsPosted(r)
  /\ waiting = <<>>
  /\ handed' = Append(handed, r)
  /\ UNCHANGED waiting

(* A batch is the oldest of what waits.                                    *)
Hand ==
  \E n \in 1..Len(waiting) :
    /\ handed' = handed \o SubSeq(waiting, 1, n)
    /\ waiting' = SubSeq(waiting, n + 1, Len(waiting))

MailboxNext == Hand \/ \E r \in Reports : Post(r) \/ PostAndHand(r)

MailboxSpec == MailboxInit /\ [][MailboxNext]_mailboxVars
=============================================================================
