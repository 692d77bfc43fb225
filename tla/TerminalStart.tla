----------------------------- MODULE TerminalStart -----------------------------
(***************************************************************************)
(* `tsf terminal` around its host (cli/src/terminal.rs, run): the stream is*)
(* created, its links are printed, reader, writer and child are started,   *)
(* and `started` is published; a command that fails before it knows that   *)
(* `started` is durable deletes the stream again.  The REST calls are those*)
(* of RestClient; the host after its start is TerminalHost.                *)
(*                                                                         *)
(* The same module runs RestClient's library application, of which the     *)
(* terminal command is one more user.                                      *)
(***************************************************************************)
EXTENDS RestClient

VARIABLES
  pc,         \* where run is; "library" when no terminal is started
  record,     \* the `started` record: "none", "sent" or "durable"
  started,    \* run's flag, set by host
  ownerShown  \* the owner link is on the user's screen

commandVars == <<pc, record, started, ownerShown>>
allVars == <<vars, commandVars>>

\* The stream that create_stream returned.
Created == results[1].number
Active == service.streams[Created].status = "active"

StartInit ==
  /\ Init
  /\ pc \in {"library", "create"}
  /\ record = "none" /\ started = FALSE /\ ownerShown = FALSE

Create ==
  /\ pc = "create" /\ pc' = "creating"
  /\ CreateStream
  /\ UNCHANGED <<record, started, ownerShown>>

\* The call returned: without a stream there is nothing to clean up.  A response
\* without the owner link that was asked for is not one of this service.
HasCreated ==
  /\ pc = "creating" /\ call = NoCall
  /\ pc' = IF results[1].kind = "ok" THEN "printing" ELSE "failed"
  /\ UNCHANGED <<vars, record, started, ownerShown>>

\* print_created_stream shows the owner link only when asked to.
ShowLinks ==
  /\ pc = "printing" /\ pc' = "connecting"
  /\ ownerShown' \in BOOLEAN
  /\ UNCHANGED <<vars, record, started>>

\* A link cannot be built.
ShowLinksFails ==
  /\ pc = "printing" /\ pc' = "cleanup"
  /\ UNCHANGED <<vars, record, started, ownerShown>>

\* host: reader, writer, PTY and child; then `started` goes to the publisher.
Connect ==
  /\ pc = "connecting" /\ pc' = "starting"
  /\ record' = "sent"
  /\ UNCHANGED <<vars, started, ownerShown>>

\* Variant: only the error counts.
AnyFailure(failed) == failed

\* What run does when host returns.
MustCleanUp(failed) == failed /\ ~started

HostReturns(failed) == pc' = IF MustCleanUp(failed) THEN "cleanup" ELSE "ended"

HostFails ==
  /\ pc = "connecting" /\ HostReturns(TRUE)
  /\ UNCHANGED <<vars, record, started, ownerShown>>

\* The stream takes the record, also after the publisher was aborted (external).
RecordDurable ==
  /\ record = "sent" /\ Active /\ record' = "durable"
  /\ UNCHANGED <<vars, pc, started, ownerShown>>

\* The three arms of host's select: the confirmation, the publisher's end, Ctrl-C.
Confirmed ==
  /\ pc = "starting" /\ record = "durable"
  /\ pc' = "running" /\ started' = TRUE
  /\ UNCHANGED <<vars, record, ownerShown>>

StartFails ==
  /\ pc = "starting" /\ HostReturns(TRUE)
  /\ UNCHANGED <<vars, record, started, ownerShown>>

\* Before that select, nothing listens: Ctrl-C, or a closed standard output while
\* links are printed, ends the process where it is.
Killed ==
  /\ pc \in {"creating", "printing", "connecting"} /\ pc' = "killed"
  /\ IF call = NoCall THEN UNCHANGED vars ELSE Dropped
  /\ UNCHANGED <<record, started, ownerShown>>

\* host returns after its start, with or without an error.
HostEnds ==
  /\ pc = "running" /\ \E failed \in BOOLEAN : HostReturns(failed)
  /\ UNCHANGED <<vars, record, started, ownerShown>>

\* cleanup_failed_start.
CleanUp ==
  /\ pc = "cleanup" /\ pc' = "deleting"
  /\ Begin("delete_stream", Created, NoLink, <<>>, NoSeq)
  /\ UNCHANGED <<record, started, ownerShown>>

CleanedUp ==
  /\ pc = "deleting" /\ call = NoCall /\ pc' = "ended"
  /\ ownerShown' = (ownerShown \/ results[2].kind # "ok")
  /\ UNCHANGED <<vars, record, started>>

Command ==
  \/ Create \/ HasCreated \/ ShowLinks \/ ShowLinksFails \/ Connect \/ HostFails
  \/ RecordDurable \/ Confirmed \/ StartFails \/ Killed
  \/ HostEnds \/ CleanUp \/ CleanedUp

StartNext ==
  \/ Command
  \/ (Client \/ Environment) /\ UNCHANGED commandVars
  \/ pc = "library" /\ (Application \/ Dropped) /\ UNCHANGED commandVars

StartSpec == StartInit /\ [][StartNext]_allVars /\ Fairness

-----------------------------------------------------------------------------
\* A command that was not killed leaves no stream behind that nobody owns: the stream
\* it created was hosted to the end of host, or it is deleted, or its owner link is on
\* the screen; and a stream whose start was confirmed, or that the user may have seen
\* running, is never deleted (run, cleanup_failed_start).
StartupLeavesNothing ==
  pc = "ended" =>
    IF started THEN Active /\ record = "durable"
    ELSE ownerShown \/ ~Active

=============================================================================
