----------------------------- MODULE AtomicFile -----------------------------
(***************************************************************************)
(* What bestie_edit promises of one path: each request is carried out at   *)
(* one instant, as if no other run existed, or is refused and changes      *)
(* nothing.  A create that cannot look at the path takes it to be free.  A *)
(* power failure may take back what was not yet on disk.                   *)
(***************************************************************************)
EXTENDS Naturals

CONSTANTS Procs, Tokens

VARIABLES
    request,    \* what each run is asked
    content,    \* what a reader of the path sees
    saved,      \* what is on disk
    blind,      \* the creates that could not look at the path
    verdict     \* what became of each run's request

vars == <<request, content, saved, blind, verdict>>

Undecided == "undecided"

\* Replies that say nothing was done, whatever the file holds.
Refusals == {"failed", "pathMissing", "pathExists", "denied"}

\* A text is how often each token occurs in it.
Replaced(text, r) ==
    LET n == IF r.replaceAll THEN text[r.old] ELSE 1
    IN  IF r.old = r.new THEN text
        ELSE [text EXCEPT ![r.old] = @ - n, ![r.new] = @ + n]

\* The reply to an edit of text, by the order of the program's checks.
EditOutcome(text, r) ==
    IF text[r.old] = 0 THEN "targetMissing"
    ELSE IF text[r.old] > 1 /\ ~r.replaceAll THEN "ambiguous"
    ELSE IF Replaced(text, r) = text THEN "noChange"
    ELSE "succeeded"

Outcome(c, r) ==
    CASE r.action = "create" -> IF c.kind = "missing" THEN "created" ELSE "pathExists"
      [] r.action = "edit" ->
           CASE c.kind = "link"    -> "failed"
             [] c.kind = "missing" -> "pathMissing"
             [] c.kind = "directory" -> "isDirectory"
             [] c.kind = "binary"  -> "notText"
             [] c.kind = "text"    -> EditOutcome(c.text, r)

After(c, r) ==
    CASE Outcome(c, r) = "created"   -> [kind |-> "text", text |-> r.text]
      [] Outcome(c, r) = "succeeded" -> [kind |-> "text", text |-> Replaced(c.text, r)]
      [] OTHER -> c

Init ==
    /\ verdict = [p \in Procs |-> Undecided]
    /\ saved = content
    /\ blind = {}

\* The request is carried out.
Serve(p) ==
    /\ verdict[p] = Undecided /\ p \notin blind
    /\ verdict' = [verdict EXCEPT ![p] = Outcome(content, request[p])]
    /\ content' = After(content, request[p])
    /\ UNCHANGED <<request, saved, blind>>

\* The path can be written to, it may be, but not looked at.
CannotLook(p) ==
    /\ verdict[p] = Undecided /\ request[p].action = "create"
    /\ blind' = blind \cup {p}
    /\ UNCHANGED <<request, content, saved, verdict>>

\* What is there, if anything, is replaced, unless it is a directory.
Overwrite(p) ==
    /\ verdict[p] = Undecided /\ p \in blind
    /\ content.kind # "directory"
    /\ verdict' = [verdict EXCEPT ![p] = "created"]
    /\ content' = [kind |-> "text", text |-> request[p].text]
    /\ UNCHANGED <<request, saved, blind>>

\* The program gives up: nothing changes.
Refuse(p) ==
    /\ verdict[p] = Undecided
    /\ \E v \in Refusals : verdict' = [verdict EXCEPT ![p] = v]
    /\ UNCHANGED <<request, content, saved, blind>>

Flush == saved' = content /\ UNCHANGED <<request, content, blind, verdict>>

PowerFailure == content' = saved /\ UNCHANGED <<request, saved, blind, verdict>>

Next ==
    \/ \E p \in Procs : Serve(p) \/ CannotLook(p) \/ Overwrite(p) \/ Refuse(p)
    \/ Flush \/ PowerFailure

Spec == Init /\ [][Next]_vars

=============================================================================
