------------------------------ MODULE AuditRun ------------------------------
(***************************************************************************)
(* The audit of one analyze, map or apply request: AuditScope and          *)
(* RunRecorder write an execution_run row and its audit_event rows through *)
(* the request's own database session, each in a commit of its own, and    *)
(* LocalArtifactStore writes files beside them.                            *)
(*                                                                         *)
(* AuditScope catches what an audit write raises and marks the answer.  A  *)
(* write that fails (another session holds SQLite's lock too long) fails   *)
(* in the flush of commit, and nobody rolls the session back: everything   *)
(* that touches the database through it from then on raises as well, the   *)
(* columns of rows that the last commit expired included.                  *)
(***************************************************************************)
EXTENDS Naturals, Sequences, FiniteSets, SequencesExt

CONSTANTS
    WritesFail,     \* TRUE: a write may wait too long for the lock
    CallsFail,      \* TRUE: the model or the retrieval may raise
    FilesFail,      \* TRUE: so may a file
    MayCrash        \* TRUE: the server may stop between two steps

ASSUME AuditAssumption == {WritesFail, CallsFail, FilesFail, MayCrash} \subseteq BOOLEAN

\* The steps of each way through a handler that touch the audit, the session
\* or the outside:
\*   create, close, abort      commit the row's status
\*   opened, note, built, closed, aborted   commit an event
\*   load                      reads a row of the session
\*   call                      the model, the retrieval or the golden tests
\*   store                     commits the result
\*   artifact, manifest        write a file
Script == [
    analyze |-> <<"create", "opened", "opened", "note", "load", "call", "note", "note",
                  "note", "store", "artifact", "load", "manifest", "close", "closed",
                  "load">>,
    map |-> <<"create", "opened", "opened", "load", "call", "note", "store", "artifact",
              "load", "manifest", "close", "closed">>,
    mapNothing |-> <<"create", "opened", "opened", "load", "call", "note", "artifact",
                     "load", "manifest", "close", "closed">>,
    applyStopped |-> <<"create", "opened", "opened", "load", "note", "close", "closed">>,
    applyUnmapped |-> <<"create", "opened", "opened", "load", "abort", "aborted">>,
    apply |-> <<"create", "opened", "opened", "load", "note", "load", "note", "call",
                "note", "store", "load", "manifest", "note", "close", "closed", "load">>,
    applyKept |-> <<"create", "opened", "opened", "load", "note", "load", "note", "call",
                    "note", "note", "call", "note", "store", "artifact", "built", "load",
                    "manifest", "note", "close", "closed", "load">>]

\* The steps of start_run, the same on every way.
Opening == 3

Routes == DOMAIN Script

EventSteps == {"opened", "note", "built", "closed", "aborted"}
FileSteps == {"artifact", "manifest"}
AuditSteps == EventSteps \union FileSteps \union {"close", "abort"}

VARIABLES
    route,       \* the way the request goes
    at,          \* its next step
    session,     \* "ok", or "broken": to be rolled back
    known,       \* AuditScope has a run id
    incomplete,  \* AuditScope.incomplete
    run,         \* execution_run.status
    events,      \* audit_event rows; an event's sequence_no is its index
    result,      \* the result is committed
    temp,        \* a temporary file exists
    files,       \* complete files in the run's directory
    refs,        \* the artifacts the request has references of
    listed,      \* the artifacts in the manifest
    answer       \* what the client has got

vars == <<route, at, session, known, incomplete, run, events, result, temp,
          files, refs, listed, answer>>

disk == <<temp, files, refs, listed>>

Init ==
    /\ route \in Routes
    /\ at = 1
    /\ session = "ok"
    /\ known = FALSE
    /\ incomplete = FALSE
    /\ run = "absent"
    /\ events = <<>>
    /\ result = FALSE
    /\ temp = FALSE
    /\ files = {}
    /\ refs = {}
    /\ listed = {}
    /\ answer = "none"

-----------------------------------------------------------------------------
(* Steps *)

\* The request is about to take a step of one of these kinds.
Reaches(steps) ==
    /\ answer = "none"
    /\ at \in DOMAIN Script[route]
    /\ Script[route][at] \in steps

GoOn == at' = at + 1

\* A step of the audit is skipped when start has failed.
Audits(steps) == Reaches(steps) /\ known

\* The exception reaches FastAPI, which closes the session.
Raise == answer' = "error"

\* start: nothing of the run is known to the request until all of it is done.
CreateRun ==
    /\ Reaches({"create"})
    /\ run' = "running"
    /\ GoOn
    /\ UNCHANGED <<route, session, known, incomplete, events, result, disk, answer>>

Opened ==
    /\ Reaches({"opened"})
    /\ events' = Append(events, "opened")
    /\ known' = (Len(events) = 1)
    /\ GoOn
    /\ UNCHANGED <<route, session, incomplete, run, result, disk, answer>>

\* One of the three commits of start fails: no run id, the rest is skipped.
StartFails ==
    /\ WritesFail
    /\ Reaches({"create", "opened"})
    /\ session' = "broken"
    /\ incomplete' = TRUE
    /\ at' = Opening + 1
    /\ UNCHANGED <<route, known, run, events, result, disk, answer>>

SkipAudit ==
    /\ Reaches(AuditSteps)
    /\ at > Opening
    /\ ~known
    /\ GoOn
    /\ UNCHANGED <<route, session, known, incomplete, run, events, result, disk, answer>>

\* record: the next number, then one commit.
Record ==
    /\ Audits(EventSteps)
    /\ session = "ok"
    /\ events' = Append(events, Script[route][at])
    /\ GoOn
    /\ UNCHANGED <<route, session, known, incomplete, run, result, disk, answer>>

\* Mutant: the session is rolled back, and the audit goes on.
RollBackAndGoOn ==
    /\ Audits(EventSteps)
    /\ WritesFail \/ session = "broken"
    /\ incomplete' = TRUE
    /\ GoOn
    /\ UNCHANGED <<route, session, known, run, events, result, disk, answer>>

\* The write fails, or the session was broken before.
RecordFails ==
    /\ Audits(EventSteps)
    /\ WritesFail \/ session = "broken"
    /\ session' = "broken"
    /\ incomplete' = TRUE
    /\ GoOn
    /\ UNCHANGED <<route, known, run, events, result, disk, answer>>

\* update_run.
Close ==
    /\ Audits({"close", "abort"})
    /\ session = "ok"
    /\ run' = IF Script[route][at] = "close" THEN "completed" ELSE "failed"
    /\ GoOn
    /\ UNCHANGED <<route, session, known, incomplete, events, result, disk, answer>>

\* Mutant: a failure to close the run is not passed on.
CloseFailsSilently ==
    /\ Audits({"close", "abort"})
    /\ WritesFail \/ session = "broken"
    /\ session' = "broken"
    /\ at' = at + 2
    /\ UNCHANGED <<route, known, incomplete, run, events, result, disk, answer>>

\* complete and fail end at the exception: no event is tried.
CloseFails ==
    /\ Audits({"close", "abort"})
    /\ WritesFail \/ session = "broken"
    /\ session' = "broken"
    /\ incomplete' = TRUE
    /\ at' = at + 2
    /\ UNCHANGED <<route, known, run, events, result, disk, answer>>

-----------------------------------------------------------------------------
(* The handler's own steps *)

Load ==
    /\ Reaches({"load"})
    /\ IF session = "ok" THEN GoOn /\ UNCHANGED answer ELSE Raise /\ UNCHANGED at
    /\ UNCHANGED <<route, session, known, incomplete, run, events, result, disk>>

Call ==
    /\ Reaches({"call"})
    /\ GoOn
    /\ UNCHANGED <<route, session, known, incomplete, run, events, result, disk, answer>>

\* No handler catches it: the run stays as it is.
CallRaises ==
    /\ CallsFail
    /\ Reaches({"call"})
    /\ Raise
    /\ UNCHANGED <<route, at, session, known, incomplete, run, events, result, disk>>

StoreResult ==
    /\ Reaches({"store"})
    /\ session = "ok"
    /\ result' = TRUE
    /\ GoOn
    /\ UNCHANGED <<route, session, known, incomplete, run, events, disk, answer>>

\* Mutant: a result that cannot be stored is only marked.
StoreFailsQuietly ==
    /\ Reaches({"store"})
    /\ WritesFail \/ session = "broken"
    /\ incomplete' = TRUE
    /\ GoOn
    /\ UNCHANGED <<route, session, known, run, events, result, disk, answer>>

StoreFails ==
    /\ Reaches({"store"})
    /\ WritesFail \/ session = "broken"
    /\ session' = "broken"
    /\ Raise
    /\ UNCHANGED <<route, at, known, incomplete, run, events, result, disk>>

-----------------------------------------------------------------------------
(* put_bytes and write_manifest *)

WriteTemp ==
    /\ Audits(FileSteps)
    /\ ~temp
    /\ temp' = TRUE
    /\ UNCHANGED <<route, at, session, known, incomplete, run, events, result,
                   files, refs, listed, answer>>

\* Mutant: the reference is handed out for a file that is not renamed.
KeepTemp ==
    /\ Audits(FileSteps)
    /\ temp
    /\ temp' = FALSE
    /\ IF Script[route][at] = "manifest"
       THEN files' = files \union {"manifest"} /\ listed' = refs /\ UNCHANGED refs
       ELSE refs' = refs \union {"artifact"} /\ UNCHANGED <<files, listed>>
    /\ GoOn
    /\ UNCHANGED <<route, session, known, incomplete, run, events, result, answer>>

\* os.replace: the file appears with all of its content.
Rename ==
    /\ Audits(FileSteps)
    /\ temp
    /\ temp' = FALSE
    /\ files' = files \union {Script[route][at]}
    /\ IF Script[route][at] = "manifest"
       THEN listed' = refs /\ UNCHANGED refs
       ELSE refs' = refs \union {"artifact"} /\ UNCHANGED listed
    /\ GoOn
    /\ UNCHANGED <<route, session, known, incomplete, run, events, result, answer>>

\* Nothing is left behind, the answer is marked, and a patch that was not
\* kept has no PATCH_BUILT.
FileFails ==
    /\ FilesFail
    /\ Audits(FileSteps)
    /\ temp' = FALSE
    /\ incomplete' = TRUE
    /\ at' = IF Script[route][at + 1] = "built" THEN at + 2 ELSE at + 1
    /\ UNCHANGED <<route, session, known, run, events, result, files, refs,
                   listed, answer>>

-----------------------------------------------------------------------------
Answer ==
    /\ answer = "none"
    /\ at = Len(Script[route]) + 1
    /\ answer' = IF route = "applyUnmapped" THEN "refused" ELSE "ok"
    /\ UNCHANGED <<route, at, session, known, incomplete, run, events, result, disk>>

\* The server stops; rows and files stay.
Crash ==
    /\ MayCrash
    /\ answer = "none"
    /\ answer' = "lost"
    /\ UNCHANGED <<route, at, session, known, incomplete, run, events, result, disk>>

Next ==
    \/ CreateRun
    \/ Opened
    \/ StartFails
    \/ SkipAudit
    \/ Record
    \/ RecordFails
    \/ Close
    \/ CloseFails
    \/ Load
    \/ Call
    \/ CallRaises
    \/ StoreResult
    \/ StoreFails
    \/ WriteTemp
    \/ Rename
    \/ FileFails
    \/ Answer
    \/ Crash

Spec == Init /\ [][Next]_vars

-----------------------------------------------------------------------------
(* Properties *)

TypeOK ==
    /\ route \in Routes
    /\ at \in 1..(Len(Script[route]) + 1)
    /\ session \in {"ok", "broken"}
    /\ {known, incomplete, result, temp} \subseteq BOOLEAN
    /\ run \in {"absent", "running", "completed", "failed"}
    /\ events \in Seq(EventSteps)
    /\ files \subseteq FileSteps
    /\ refs \union listed \subseteq {"artifact"}
    /\ answer \in {"none", "ok", "refused", "error", "lost"}
    /\ session = "broken" /\ answer = "none" => incomplete

\* How many of the first n steps are of these kinds.
Number(kinds, n) == Cardinality({i \in 1..n : Script[route][i] \in kinds})

\* The audit holds the events of these kinds among the first n steps of the request,
\* each under its number, and no other.
Holds(kinds, n) ==
    /\ Len(events) = Number(kinds, n)
    /\ \A i \in 1..n :
          Script[route][i] \in kinds => events[Number(kinds, i)] = Script[route][i]

\* What the audit holds of a request has no hole: it is a beginning of the
\* events the request should leave, whatever fails; only the event of a patch
\* file that could not be written is left out (RunRecorder.record,
\* recorder.py:36, and the session nobody rolls back).
NoHole ==
    \E n \in 0..Len(Script[route]) :
        \/ Holds(EventSteps, n)
        \/ refs = {} /\ Holds(EventSteps \ {"built"}, n)

\* An answer without audit_incomplete is telling the truth: its run is closed
\* and every event and file of the request is there (AuditScope.response_fields,
\* integration.py:55).
AnswerIsHonest ==
    answer = "ok" /\ ~incomplete =>
        /\ run = "completed"
        /\ Holds(EventSteps, Len(Script[route]))
        /\ ToSet(Script[route]) \intersect FileSteps \subseteq files

\* A run is never completed without its result (analyze, main.py:668, and
\* recorder.py:54).
CompletedIsStored ==
    run = "completed" /\ "store" \in ToSet(Script[route]) => result

\* A manifest that an inspection finds lists artifacts that are there, whole,
\* wherever the server has stopped (put_bytes, artifacts.py:43).
ManifestVerifies == "manifest" \in files => listed \subseteq files

\* A failure of the audit alone leaves the answer to the client: an error comes
\* from a call, or from the commit of the result itself (integration.py:1,
\* section 13 of AUDIT_AND_TRACEABILITY_SPEC).
AuditSparesAnswer ==
    answer = "error" =>
        \/ Script[route][at] = "call"
        \/ Script[route][at] = "store" /\ ~incomplete

=============================================================================
