------------------------ MODULE RemediationLifecycle ------------------------
(***************************************************************************)
(* The remediation of a finding: RemediationLifecycleEngine.execute        *)
(* (ai/remediation/lifecycle.py) with the parts it drives: the state       *)
(* machine, the approval token, the source snapshot, the controlled patch  *)
(* applier, the application agent and the post-apply verification.         *)
(*                                                                         *)
(* Every call of execute is a process of its own; what the processes, and  *)
(* the developers who edit the same checkout, share is the disk.  A file   *)
(* is a sequence of lines and a hunk replaces one line by another.  Steps  *)
(* are cut where the disk is read or written; a snapshot of several files  *)
(* is taken in one step, and a file that is missing or not UTF-8 is one in *)
(* which no hunk matches.  Nothing but the disk survives a process.        *)
(***************************************************************************)
EXTENDS Naturals, Sequences, FiniteSets

CONSTANTS
    Calls,        \* calls of execute
    Files,        \* files of the repository
    Lines,        \* what a line can be
    Source,       \* [Files -> Seq(Lines)]: the checkout at the start
    Proposals,    \* [Calls -> proposal]: target files (a sequence) and hunks
    Reports,      \* [Lines -> SUBSET reports]: what a scan says of a line
    Finding,      \* [Calls -> finding]: the finding to be remediated
    Unknown,      \* the CWE or sink category "UNKNOWN"
    NoVerdict,    \* the scan attached no SecurityVerdict
    Rescanned,    \* calls that are given a rescan_callback
    Edits,        \* [Files -> SUBSET Seq(Lines)]: what a developer may save
    MaxEdits,     \* bound on the edits
    Untouched,    \* no content
    NoCall        \* no call

Targets(l) == {Proposals[l].files[i] : i \in 1 .. Len(Proposals[l].files)}
Hunks(l) == Proposals[l].hunks

ASSUME RemediationAssumption ==
    /\ Source \in [Files -> Seq(Lines)] /\ Edits \in [Files -> SUBSET Seq(Lines)]
    /\ \A l \in Calls :
          /\ Targets(l) \subseteq Files /\ Proposals[l].files \in Seq(Files)
          /\ Hunks(l) \in Seq([file : Targets(l), orig : Lines, prop : Lines])
          /\ Finding[l].file \in Files
          /\ {"rule", "cwe", "category"} \subseteq DOMAIN Finding[l]
    /\ \A line \in Lines : \A r \in Reports[line] :
          {"rule", "cwe", "category", "verdict"} \subseteq DOMAIN r
    /\ NoVerdict # "VULNERABLE"
    /\ Rescanned \subseteq Calls
    /\ MaxEdits \in Nat /\ Untouched \notin Seq(Lines) /\ NoCall \notin Calls

VARIABLES
    disk,       \* contents of the files
    state,      \* LifecycleStateMachine._current_state of each call
    pc,         \* where the call is
    snap,       \* SourceSnapshot of the call: the targets' contents
    token,      \* its approval token
    issued,     \* token objects in somebody's hands
    backup,     \* backup_bytes
    buffer,     \* modified_contents
    todo,       \* files still to write, or hunks still to undo
    rollback,   \* rollback_status
    edits,      \* number of edits so far
    wrote,      \* history: files the call has written
    disturbed   \* history: targets changed by others since the call's preflight

localVars == <<snap, token, backup, buffer, todo, rollback>>
vars == <<disk, state, pc, localVars, issued, edits, wrote, disturbed>>

-----------------------------------------------------------------------------
(* Texts. *)

Count(text, line) == Cardinality({i \in 1 .. Len(text) : text[i] = line})

(* str.replace(old, new, 1) *)
ReplaceFirst(text, old, new) ==
    IF Count(text, old) = 0 THEN text
    ELSE [text EXCEPT ![CHOOSE i \in 1 .. Len(text) :
                          text[i] = old /\ \A j \in 1 .. i - 1 : text[j] # old] = new]

(* modified_contents after the first n hunks. *)
Modified(texts, hunks, n) ==
    LET after[i \in 0 .. Len(hunks)] ==
          IF i = 0 THEN texts
          ELSE [after[i - 1] EXCEPT ![hunks[i].file] =
                   ReplaceFirst(@, hunks[i].orig, hunks[i].prop)]
    IN  after[n]

Patched(texts, hunks) == Modified(texts, hunks, Len(hunks))

(* Every hunk matches exactly once, in the text the earlier ones leave. *)
HunksMatch(texts, hunks) ==
    \A i \in 1 .. Len(hunks) :
        Count(Modified(texts, hunks, i - 1)[hunks[i].file], hunks[i].orig) = 1

Contents(l) == [f \in Targets(l) |-> disk[f]]
NoContents(l) == [f \in Targets(l) |-> Untouched]

(* The locals of apply() go when it returns. *)
Forget(l) ==
    /\ backup' = [backup EXCEPT ![l] = NoContents(l)]
    /\ buffer' = [buffer EXCEPT ![l] = NoContents(l)]

-----------------------------------------------------------------------------
(* The state machine. *)

VALID_TRANSITIONS ==
    {<<"DETECTED", "EVIDENCE_VERIFIED">>, <<"EVIDENCE_VERIFIED", "RCA_ESTABLISHED">>,
     <<"RCA_ESTABLISHED", "REMEDIATION_PROPOSED">>,
     <<"REMEDIATION_PROPOSED", "AWAITING_APPROVAL">>,
     <<"AWAITING_APPROVAL", "APPROVED">>, <<"AWAITING_APPROVAL", "REJECTED">>,
     <<"APPROVED", "SNAPSHOT_VERIFIED">>, <<"SNAPSHOT_VERIFIED", "APPLYING">>,
     <<"APPLYING", "APPLIED_UNVERIFIED">>, <<"APPLYING", "APPLY_FAILED">>,
     <<"APPLY_FAILED", "ROLLED_BACK">>, <<"APPLY_FAILED", "CRITICAL_RECOVERY_FAILURE">>,
     <<"APPLIED_UNVERIFIED", "SECURITY_RESCAN">>,
     <<"SECURITY_RESCAN", "VERIFIED_FIXED">>, <<"SECURITY_RESCAN", "STILL_VULNERABLE">>,
     <<"SECURITY_RESCAN", "UNKNOWN">>,
     <<"STILL_VULNERABLE", "ROLLED_BACK">>, <<"UNKNOWN", "ROLLED_BACK">>,
     <<"ROLLED_BACK", "CRITICAL_RECOVERY_FAILURE">>}

States == {t[1] : t \in VALID_TRANSITIONS} \cup {t[2] : t \in VALID_TRANSITIONS}

(* sm.transition, one after the other, along a path of the machine; every  *)
(* one is followed by an entry of the call's own ledger.                   *)
transition(l, path) ==
    /\ \A i \in 1 .. Len(path) :
          <<(IF i = 1 THEN state[l] ELSE path[i - 1]), path[i]>> \in VALID_TRANSITIONS
    /\ state' = [state EXCEPT ![l] = path[Len(path)]]

Goto(l, label) == pc' = [pc EXCEPT ![l] = label]
At(l, label) == pc[l] = label

-----------------------------------------------------------------------------
(* Approval. *)

NoToken == [call |-> NoCall]
Token(l, s) == [call |-> l, snapshot |-> s, status |-> "APPROVED"]

(* Mutant: the token is not compared with the snapshot. *)
verify_valid_unbound(t, l, s, expired) ==
    /\ ~expired /\ t # NoToken /\ t.status = "APPROVED"
    /\ Finding[t.call] = Finding[l] /\ Proposals[t.call] = Proposals[l]

(* A token may expire, also between its two verifications. *)
verify_valid(t, l, s, expired) ==
    /\ ~expired /\ t # NoToken /\ t.status = "APPROVED"
    /\ Finding[t.call] = Finding[l] /\ Proposals[t.call] = Proposals[l] /\ t.snapshot = s

(* Stages 1 and 2, and the snapshot the reviewer is shown.  The proposal   *)
(* may have been made from an older text.                                  *)
plan_and_propose(l) ==
    /\ At(l, "start") /\ Goto(l, "review")
    /\ transition(l, <<"EVIDENCE_VERIFIED", "RCA_ESTABLISHED", "REMEDIATION_PROPOSED",
                       "AWAITING_APPROVAL">>)
    /\ snap' = [snap EXCEPT ![l] = Contents(l)]
    /\ UNCHANGED <<disk, token, backup, buffer, todo, rollback, issued, edits,
                   wrote, disturbed>>

proposing_raises(l) ==
    /\ At(l, "start") /\ Goto(l, "raised")
    /\ transition(l, <<"EVIDENCE_VERIFIED", "RCA_ESTABLISHED">>)
    /\ UNCHANGED <<disk, localVars, issued, edits, wrote, disturbed>>

(* The approval provider: a token made for this proposal and snapshot, a   *)
(* token object from an earlier call, or none.                             *)
approve(l) ==
    /\ At(l, "review")
    /\ \E t \in issued \cup {Token(l, snap[l]), NoToken}, expired \in BOOLEAN :
        /\ issued' = IF t = NoToken THEN issued ELSE issued \cup {t}
        /\ IF verify_valid(t, l, snap[l], expired)
           THEN /\ transition(l, <<"APPROVED", "SNAPSHOT_VERIFIED", "APPLYING">>)
                /\ token' = [token EXCEPT ![l] = t]
                /\ Goto(l, "preflight")
           ELSE /\ transition(l, <<"REJECTED">>)
                /\ Goto(l, "done")
                /\ UNCHANGED token
    /\ UNCHANGED <<disk, snap, backup, buffer, todo, rollback, edits, wrote, disturbed>>

-----------------------------------------------------------------------------
(* The controlled patch applier. *)

(* What the lifecycle makes of a result other than APPLIED: rollback_status *)
(* is compared with a value the applier never returns.                     *)
ApplyFailed(l, rollback_status) ==
    transition(l, <<"APPLY_FAILED", IF rollback_status = "CRITICAL_FAILURE"
                                    THEN "CRITICAL_RECOVERY_FAILURE" ELSE "ROLLED_BACK">>)

Refused(l) ==
    /\ ApplyFailed(l, "NOT_NEEDED") /\ Goto(l, "done")
    /\ rollback' = [rollback EXCEPT ![l] = "NOT_NEEDED"]

(* The fresh snapshot against the token. *)
preflight(l) ==
    /\ At(l, "preflight")
    /\ \E expired \in BOOLEAN :
          IF verify_valid(token[l], l, Contents(l), expired)
          THEN /\ Goto(l, "reading") /\ UNCHANGED <<state, rollback>>
               /\ disturbed' = [disturbed EXCEPT ![l] = {}]
          ELSE Refused(l) /\ UNCHANGED disturbed
    /\ UNCHANGED <<disk, snap, token, backup, buffer, todo, issued, edits, wrote>>

read_targets(l) ==
    /\ At(l, "reading")
    /\ IF HunksMatch(Contents(l), Hunks(l))
       THEN /\ Goto(l, "writing")
            /\ backup' = [backup EXCEPT ![l] = Contents(l)]
            /\ buffer' = [buffer EXCEPT ![l] = Patched(Contents(l), Hunks(l))]
            /\ todo' = [todo EXCEPT ![l] = Proposals[l].files]
            /\ UNCHANGED <<state, rollback>>
       ELSE Refused(l) /\ UNCHANGED <<backup, buffer, todo>>
    /\ UNCHANGED <<disk, snap, token, issued, edits, wrote, disturbed>>

(* A write by call l, and what the others' history makes of it. *)
Write(l, f, text) ==
    /\ disk' = [disk EXCEPT ![f] = text]
    /\ wrote' = [wrote EXCEPT ![l] = @ \cup {f}]
    /\ disturbed' = [m \in Calls |->
                       IF m # l /\ f \in Targets(m) /\ text # disk[f]
                       THEN disturbed[m] \cup {f} ELSE disturbed[m]]

write_file(l) ==
    /\ At(l, "writing") /\ todo[l] # <<>>
    /\ Write(l, Head(todo[l]), buffer[l][Head(todo[l])])
    /\ todo' = [todo EXCEPT ![l] = Tail(@)]
    /\ UNCHANGED <<state, pc, snap, token, backup, buffer, rollback, issued, edits>>

(* Mutant: only the files not yet written are restored. *)
write_fails_forgets(l) ==
    /\ At(l, "writing") /\ todo[l] # <<>>
    /\ \E text \in {<<>>, disk[Head(todo[l])]} : Write(l, Head(todo[l]), text)
    /\ Goto(l, "restoring")
    /\ rollback' = [rollback EXCEPT ![l] = "SUCCESS"]
    /\ UNCHANGED <<state, snap, token, backup, buffer, todo, issued, edits>>

(* write_bytes truncates the file before it writes. *)
write_fails(l) ==
    /\ At(l, "writing") /\ todo[l] # <<>>
    /\ \E text \in {<<>>, disk[Head(todo[l])]} : Write(l, Head(todo[l]), text)
    /\ Goto(l, "restoring")
    /\ todo' = [todo EXCEPT ![l] = Proposals[l].files]
    /\ rollback' = [rollback EXCEPT ![l] = "SUCCESS"]
    /\ UNCHANGED <<state, snap, token, backup, buffer, issued, edits>>

(* The snapshot after the last write is taken inside the try.              *)
capture_fails(l) ==
    /\ At(l, "writing") /\ todo[l] = <<>> /\ Goto(l, "restoring")
    /\ todo' = [todo EXCEPT ![l] = Proposals[l].files]
    /\ rollback' = [rollback EXCEPT ![l] = "SUCCESS"]
    /\ UNCHANGED <<disk, state, snap, token, backup, buffer, issued, edits, wrote, disturbed>>

(* In _rollback_transaction: called by apply, or after a rescan that       *)
(* raised, by the application agent with another backup.                   *)
Restoring(l) == At(l, "restoring") \/ At(l, "reverting")

(* _rollback_transaction: every backup is written, whatever the others did. *)
restore_file(l) ==
    /\ Restoring(l) /\ todo[l] # <<>>
    /\ Write(l, Head(todo[l]), backup[l][Head(todo[l])])
    /\ todo' = [todo EXCEPT ![l] = Tail(@)]
    /\ UNCHANGED <<state, pc, snap, token, backup, buffer, rollback, issued, edits>>

restore_fails(l) ==
    /\ Restoring(l) /\ todo[l] # <<>>
    /\ \E text \in {<<>>, disk[Head(todo[l])]} : Write(l, Head(todo[l]), text)
    /\ todo' = [todo EXCEPT ![l] = Tail(@)]
    /\ rollback' = [rollback EXCEPT ![l] = "CRITICAL_RECOVERY_FAILURE"]
    /\ UNCHANGED <<state, pc, snap, token, backup, buffer, issued, edits>>

(* Mutant: a failed restore waits for somebody. *)
restored_waits(l) ==
    /\ Restoring(l) /\ todo[l] = <<>> /\ rollback[l] = "SUCCESS"
    /\ ApplyFailed(l, rollback[l]) /\ Goto(l, "done") /\ Forget(l)
    /\ UNCHANGED <<disk, snap, token, todo, rollback, issued, edits, wrote, disturbed>>

restored(l) ==
    /\ Restoring(l) /\ todo[l] = <<>>
    /\ ApplyFailed(l, rollback[l]) /\ Goto(l, "done") /\ Forget(l)
    /\ UNCHANGED <<disk, snap, token, todo, rollback, issued, edits, wrote, disturbed>>

(* token.mark_used() returns a new object; the caller's own stays APPROVED. *)
applied(l) ==
    /\ At(l, "writing") /\ todo[l] = <<>>
    /\ issued' = issued \cup {[token[l] EXCEPT !.status = "USED"]}
    /\ Goto(l, "applied") /\ Forget(l)
    /\ UNCHANGED <<disk, state, snap, token, todo, rollback, edits, wrote, disturbed>>

-----------------------------------------------------------------------------
(* The application agent: rescan, verification, tests, textual rollback.   *)

(* The category of a report is that of its verdict.                        *)
CategoryOf(r) == IF r.verdict = NoVerdict THEN Unknown ELSE r.category

(* PostApplyVerificationEngine.verify: same rule or known CWE, same sink   *)
(* category unless the contract's is UNKNOWN, and a verdict that is        *)
(* VULNERABLE or missing.                                                  *)
SemanticMatch(r, contract) ==
    /\ r.rule = contract.rule \/ (contract.cwe # Unknown /\ r.cwe = contract.cwe)
    /\ CategoryOf(r) = contract.category \/ contract.category = Unknown
    /\ r.verdict \in {NoVerdict, "VULNERABLE"}

(* Such a report anywhere in the file counts as the finding.               *)
Matches(l) == {i \in 1 .. Len(disk[Finding[l].file]) :
                  \E r \in Reports[disk[Finding[l].file][i]] : SemanticMatch(r, Finding[l])}

(* Mutant: the result of the rescan is not looked at. *)
rescan_trusting(l) ==
    /\ At(l, "applied") /\ Goto(l, "testing")
    /\ UNCHANGED <<disk, state, localVars, issued, edits, wrote, disturbed>>

(* Without a callback the scan is lambda: (), which finds nothing.          *)
rescan(l) ==
    /\ At(l, "applied")
    /\ IF l \notin Rescanned \/ Matches(l) = {}
       THEN Goto(l, "testing") /\ UNCHANGED todo
       ELSE Goto(l, "undoing") /\ todo' = [todo EXCEPT ![l] = Hunks(l)]
    /\ UNCHANGED <<disk, state, snap, token, backup, buffer, rollback, issued, edits,
                   wrote, disturbed>>

(* The backup for the rollback is read from the patched files. *)
rescan_raises(l) ==
    /\ At(l, "applied") /\ l \in Rescanned /\ Goto(l, "reverting")
    /\ backup' = [backup EXCEPT ![l] = Contents(l)]
    /\ todo' = [todo EXCEPT ![l] = Proposals[l].files]
    /\ rollback' = [rollback EXCEPT ![l] = "SUCCESS"]
    /\ UNCHANGED <<disk, state, snap, token, buffer, issued, edits, wrote, disturbed>>

tests_pass(l) ==
    /\ At(l, "testing") /\ Goto(l, "done")
    /\ transition(l, <<"APPLIED_UNVERIFIED", "SECURITY_RESCAN", "VERIFIED_FIXED">>)
    /\ UNCHANGED <<disk, localVars, issued, edits, wrote, disturbed>>

(* ROLLBACK_REQUIRED *)
tests_fail(l) ==
    /\ At(l, "testing") /\ Goto(l, "undoing")
    /\ todo' = [todo EXCEPT ![l] = Hunks(l)]
    /\ UNCHANGED <<disk, state, snap, token, backup, buffer, rollback, issued, edits,
                   wrote, disturbed>>

(* One hunk: the first line that reads like its proposed text. *)
undo_hunk(l) ==
    /\ At(l, "undoing") /\ todo[l] # <<>>
    /\ LET h == Head(todo[l])
       IN  IF Count(disk[h.file], h.prop) > 0
           THEN Write(l, h.file, ReplaceFirst(disk[h.file], h.prop, h.orig))
           ELSE UNCHANGED <<disk, wrote, disturbed>>
    /\ todo' = [todo EXCEPT ![l] = Tail(@)]
    /\ UNCHANGED <<state, pc, snap, token, backup, buffer, rollback, issued, edits>>

undo_raises(l) ==
    /\ At(l, "undoing") /\ todo[l] # <<>>
    /\ LET f == Head(todo[l]).file
       IN  \E text \in {<<>>, disk[f]} : Write(l, f, text)
    /\ todo' = [todo EXCEPT ![l] = <<>>]
    /\ Goto(l, "raised")
    /\ UNCHANGED <<state, snap, token, backup, buffer, rollback, issued, edits>>

undone(l) ==
    /\ At(l, "undoing") /\ todo[l] = <<>>
    /\ rollback' = [rollback EXCEPT ![l] = "SUCCESS"]
    /\ ApplyFailed(l, "SUCCESS") /\ Goto(l, "done")
    /\ UNCHANGED <<disk, snap, token, backup, buffer, todo, issued, edits, wrote, disturbed>>

-----------------------------------------------------------------------------
(* A developer saves a file. *)
edit(f) ==
    /\ edits < MaxEdits /\ edits' = edits + 1
    /\ \E text \in Edits[f] \ {disk[f]} : disk' = [disk EXCEPT ![f] = text]
    /\ disturbed' = [l \in Calls |-> IF f \in Targets(l) THEN disturbed[l] \cup {f}
                                     ELSE disturbed[l]]
    /\ UNCHANGED <<state, pc, localVars, issued, wrote>>

Ended == {"done", "raised", "dead"}

(* The process dies; only the disk is left. *)
crash(l) ==
    /\ pc[l] \notin Ended /\ Goto(l, "dead") /\ Forget(l)
    /\ todo' = [todo EXCEPT ![l] = <<>>]
    /\ UNCHANGED <<disk, state, snap, token, rollback, issued, edits, wrote, disturbed>>

Init ==
    /\ disk = Source /\ issued = {} /\ edits = 0
    /\ state = [l \in Calls |-> "DETECTED"] /\ pc = [l \in Calls |-> "start"]
    /\ snap = [l \in Calls |-> NoContents(l)] /\ token = [l \in Calls |-> NoToken]
    /\ backup = [l \in Calls |-> NoContents(l)] /\ buffer = [l \in Calls |-> NoContents(l)]
    /\ todo = [l \in Calls |-> <<>>] /\ rollback = [l \in Calls |-> "NOT_NEEDED"]
    /\ wrote = [l \in Calls |-> {}] /\ disturbed = [l \in Calls |-> {}]

apply(l) ==
    \/ preflight(l) \/ read_targets(l) \/ write_file(l) \/ write_fails(l) \/ capture_fails(l)
    \/ restore_file(l) \/ restore_fails(l) \/ restored(l) \/ applied(l)

execute_transaction(l) ==
    \/ apply(l) \/ rescan(l) \/ rescan_raises(l) \/ tests_pass(l) \/ tests_fail(l)
    \/ undo_hunk(l) \/ undo_raises(l) \/ undone(l)

execute(l) ==
    \/ plan_and_propose(l) \/ proposing_raises(l) \/ approve(l)
    \/ execute_transaction(l)

Next ==
    \/ \E l \in Calls : execute(l) \/ crash(l)
    \/ \E f \in Files : edit(f)

(* A call that runs goes on running: the reviewer answers, the scan and    *)
(* the tests (180 s at most) end.                                          *)
Spec == Init /\ [][Next]_vars /\ \A l \in Calls : WF_vars(execute(l))

-----------------------------------------------------------------------------
Texts(l) == [Targets(l) -> {Untouched} \cup Seq(Lines)]
IsToken(t) ==
    \/ t = NoToken
    \/ \E l \in Calls :
          t \in [call : {l}, snapshot : Texts(l), status : {"APPROVED", "USED"}]
Labels == {"start", "review", "preflight", "reading", "writing", "restoring", "reverting",
           "applied", "testing", "undoing"} \cup Ended

(* Type invariant; a call's place and its lifecycle state agree. *)
TypeOK ==
    /\ disk \in [Files -> Seq(Lines)] /\ edits \in 0 .. MaxEdits
    /\ state \in [Calls -> States] /\ pc \in [Calls -> Labels]
    /\ \A t \in issued : IsToken(t)
    /\ \A l \in Calls :
          /\ snap[l] \in Texts(l) /\ backup[l] \in Texts(l) /\ buffer[l] \in Texts(l)
          /\ IsToken(token[l])
          /\ rollback[l] \in {"NOT_NEEDED", "SUCCESS", "CRITICAL_RECOVERY_FAILURE"}
          /\ wrote[l] \cup disturbed[l] \subseteq Targets(l)
          /\ At(l, "done") => state[l] \in {"REJECTED", "ROLLED_BACK", "VERIFIED_FIXED"}

(* No file is written except under an issued token, still APPROVED, that   *)
(* approves this very proposal for the very texts the reviewer of this     *)
(* call was shown (L14-L17): not after a rejection or a refusal, and not   *)
(* for texts that have changed since.  The token may have been made for an *)
(* earlier call of the same proposal and have been used there: "single-    *)
(* use" (L5, lifecycle.py:13) is not what the code does.                   *)
WritesAreApproved ==
    \A l \in Calls : wrote[l] # {} =>
        /\ token[l] \in issued \ {NoToken} /\ token[l].status = "APPROVED"
        /\ Proposals[token[l].call] = Proposals[l] /\ token[l].snapshot = snap[l]

(* Unless another writer comes between (the preflight cannot exclude it),  *)
(* what is on disk once a patch is reported applied, up to VERIFIED_FIXED, *)
(* is the approved patch of the approved texts, for edits at any earlier   *)
(* moment (H2).                                                            *)
ApprovedPatch ==
    \A l \in Calls :
        (pc[l] \in {"applied", "testing"} \/ state[l] = "VERIFIED_FIXED") /\ disturbed[l] = {}
            => Contents(l) = Patched(token[l].snapshot, Hunks(l))

(* When the applier's own rollback, after a write or the snapshot that     *)
(* follows the writes has failed, reports SUCCESS, every target reads as   *)
(* it did before the call wrote anything: as the reviewer was shown it     *)
(* (H5, L8).  The rollback after a rescan that raised ("reverting") also   *)
(* reports SUCCESS and leaves the patch where it is: its backup is read    *)
(* from the patched files (application_agent.py:131-138).                  *)
RollbackIsByteExact ==
    \A l \in Calls :
        At(l, "restoring") /\ todo[l] = <<>> /\ rollback[l] = "SUCCESS" /\ disturbed[l] = {}
            => Contents(l) = snap[l]

(* The lines that a scan still calls VULNERABLE to what was found.         *)
StillReported(l) ==
    {i \in 1 .. Len(disk[Finding[l].file]) :
        \E r \in Reports[disk[Finding[l].file][i]] :
            /\ r.verdict = "VULNERABLE"
            /\ r.rule = Finding[l].rule \/ (r.cwe = Finding[l].cwe /\ r.cwe # Unknown)
            /\ Finding[l].category \in {Unknown, r.category}}

(* VERIFIED_FIXED of a call with a rescan_callback means that the file, as *)
(* long as nobody else touches it, holds no line that a scan calls         *)
(* VULNERABLE by the finding's rule, or to its CWE, for its sink category  *)
(* (L4).  A report that is UNKNOWN or NOT_PROVEN does not count, nor one   *)
(* without a verdict when the finding had one (section 6 of the README).   *)
(* Without a callback VERIFIED_FIXED means nothing of the kind.            *)
VerifiedMeansFixed ==
    \A l \in Rescanned :
        state[l] = "VERIFIED_FIXED" /\ disturbed[l] = {} /\ Finding[l].file \in Targets(l)
            => StillReported(l) = {}

(* A call that is not killed ends, with one apply attempt at most: no      *)
(* failure of a write, a restore, a scan or a test makes it loop (L9).     *)
EveryCallEnds == \A l \in Calls : <>(pc[l] \in Ended)

=============================================================================
