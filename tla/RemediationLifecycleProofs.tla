--------------------- MODULE RemediationLifecycleProofs ---------------------
(***************************************************************************)
(* Proofs about the remediation lifecycle, for any number of calls, files, *)
(* hunks and edits.  The inductive invariant says, for each place of       *)
(* execute, what the call knows about the disk: as long as nobody else     *)
(* changed one of its targets, the files it has left to write are the only *)
(* ones that differ from what it is writing.                               *)
(***************************************************************************)
EXTENDS RemediationLifecycle, SequenceTheorems, FiniteSetTheorems, WellFoundedInduction, TLAPS

-----------------------------------------------------------------------------
(* The inductive invariant. *)

Hunk(l) == [file : Targets(l), orig : Lines, prop : Lines]

(* The places of the call while it holds a token. *)
Applying == {"preflight", "reading", "writing", "restoring", "reverting", "applied", "testing", "undoing"}

(* The files the call has still to write. *)
Left(l) == {todo[l][i] : i \in 1 .. Len(todo[l])}

(* Every local of a call exists for every call. *)
Shape ==
    /\ DOMAIN snap = Calls /\ DOMAIN token = Calls /\ DOMAIN backup = Calls
    /\ DOMAIN buffer = Calls /\ DOMAIN todo = Calls /\ DOMAIN rollback = Calls
    /\ DOMAIN wrote = Calls /\ DOMAIN disturbed = Calls

(* The place of a call and its lifecycle state agree. *)
StateAgrees(l) ==
    /\ pc[l] = "start" => state[l] = "DETECTED"
    /\ pc[l] = "review" => state[l] = "AWAITING_APPROVAL"
    /\ pc[l] \in Applying => state[l] = "APPLYING"
    /\ state[l] = "VERIFIED_FIXED" => pc[l] = "done"

(* A call that may write, or has written, holds a token for its proposal   *)
(* and snapshot.                                                           *)
HoldsToken(l) ==
    /\ pc[l] \in {"start", "review"} => wrote[l] = {}
    /\ pc[l] \in Applying \/ wrote[l] # {} =>
          /\ token[l] \in issued /\ token[l] # NoToken /\ token[l].status = "APPROVED"
          /\ Proposals[token[l].call] = Proposals[l] /\ token[l].snapshot = snap[l]

(* What apply() has in its locals. *)
Locals(l) ==
    /\ pc[l] \in {"writing", "restoring", "reverting"} =>
          todo[l] \in Seq(Targets(l)) /\ backup[l] \in [Targets(l) -> Seq(Lines)]
    /\ pc[l] = "writing" => buffer[l] = Patched(backup[l], Hunks(l))
    /\ pc[l] = "undoing" => todo[l] \in Seq(Hunk(l))

(* The disk of a call that is alone with its targets. *)
Alone(l) ==
    /\ pc[l] = "reading" => Contents(l) = token[l].snapshot
    /\ pc[l] = "writing" =>
          /\ backup[l] = token[l].snapshot
          /\ \A f \in Targets(l) \ Left(l) : disk[f] = buffer[l][f]
    /\ pc[l] = "restoring" => backup[l] = token[l].snapshot
    /\ pc[l] = "restoring" /\ rollback[l] = "SUCCESS" =>
          \A f \in Targets(l) \ Left(l) : disk[f] = backup[l][f]
    /\ pc[l] \in {"applied", "testing"} \/ state[l] = "VERIFIED_FIXED" =>
          Contents(l) = Patched(token[l].snapshot, Hunks(l))
    /\ (pc[l] = "testing" \/ state[l] = "VERIFIED_FIXED")
       /\ l \in Rescanned /\ Finding[l].file \in Targets(l) => Matches(l) = {}

CallInv(l) ==
    /\ StateAgrees(l) /\ HoldsToken(l) /\ Locals(l)
    /\ disturbed[l] = {} => Alone(l)

IInv == TypeOK /\ Shape /\ \A l \in Calls : CallInv(l)

-----------------------------------------------------------------------------
(* Texts and patches. *)

(* A non-empty set of natural numbers has a least element: what is true of *)
(* n whenever it is true below n is true of every n.                       *)
LEMMA LeastNumber ==
    ASSUME NEW S, S \subseteq Nat, S # {}
    PROVE  \E x \in S : \A y \in S : x <= y
<1> DEFINE below(x) == 1 .. x
           less == StrictSubsetOrdering(Nat)
           finite == FiniteSubsetsOf(Nat)
           U == {below(x) : x \in S}
<1>1. U \subseteq finite
  <2>1. \A x \in S : IsFiniteSet(below(x)) /\ below(x) \in SUBSET Nat
    BY FS_Interval
  <2> QED BY <2>1 DEF FiniteSubsetsOf
<1>2. U # {}
  OBVIOUS
<1>3. IsWellFoundedOn(less, finite)
  BY FS_StrictSubsetOrderingWellFounded
<1>4. \E u \in U : \A v \in U : ~(<<v, u>> \in less)
  <2> HIDE DEF less, finite, U
  <2> QED BY <1>1, <1>2, <1>3, WFMin
<1>5. PICK x \in S : \A y \in S : ~(<<below(y), below(x)>> \in less)
  BY <1>4
<1>6. ASSUME NEW y \in S, y < x PROVE FALSE
  <2>1. below(y) \subseteq below(x) /\ x \in below(x) /\ x \notin below(y)
    BY <1>6
  <2>2. below(x) \in SUBSET Nat /\ below(y) \in SUBSET Nat
    OBVIOUS
  <2>3. <<below(y), below(x)>> \in less
    BY <2>1, <2>2 DEF StrictSubsetOrdering
  <2> QED BY <2>3, <1>5
<1> QED BY <1>6

(* str.replace of a line by a line makes a text of a text. *)
LEMMA ReplaceFirstType ==
    ASSUME NEW text \in Seq(Lines), NEW old, NEW new \in Lines
    PROVE  ReplaceFirst(text, old, new) \in Seq(Lines)
<1> DEFINE k == CHOOSE i \in 1 .. Len(text) :
                   text[i] = old /\ \A j \in 1 .. i - 1 : text[j] # old
           changed == [text EXCEPT ![k] = new]
<1>1. changed \in Seq(Lines)
  <2> HIDE DEF k
  <2>1. text \in [1 .. Len(text) -> Lines] /\ Len(text) \in Nat
    BY LenProperties
  <2>2. changed \in [1 .. Len(text) -> Lines]
    BY <2>1
  <2> HIDE DEF changed
  <2> QED BY <2>1, <2>2, SeqDef
<1> QED BY <1>1 DEF ReplaceFirst

(* The recursion of modified_contents over the first n hunks. *)
Recursion(texts, hunks, n, after) ==
    after = [i \in 0 .. n |->
               IF i = 0 THEN texts
               ELSE [after[i - 1] EXCEPT ![hunks[i].file] =
                        ReplaceFirst(@, hunks[i].orig, hunks[i].prop)]]

(* It is well defined. *)
LEMMA RecursionExists ==
    ASSUME NEW texts, NEW hunks, NEW n \in Nat
    PROVE  \E after : Recursion(texts, hunks, n, after)
<1> DEFINE step(i, t) == [t EXCEPT ![hunks[i].file] =
                              ReplaceFirst(@, hunks[i].orig, hunks[i].prop)]
           Bad == {m \in Nat : ~ \E after : after = [i \in 0 .. m |->
                      IF i = 0 THEN texts ELSE step(i, after[i - 1])]}
<1> HIDE DEF step
<1>1. SUFFICES ASSUME Bad # {} PROVE FALSE
  <2>1. Bad = {} => \E after : after = [i \in 0 .. n |->
                      IF i = 0 THEN texts ELSE step(i, after[i - 1])]
    OBVIOUS
  <2> QED BY <2>1 DEF step, Recursion
<1>2. PICK m \in Bad : \A y \in Bad : m <= y
  BY <1>1, LeastNumber
<1>3. m # 0
  <2> SUFFICES ASSUME m = 0 PROVE FALSE
    OBVIOUS
  <2> DEFINE g == [i \in 0 .. 0 |-> texts]
  <2>1. g = [i \in 0 .. 0 |-> IF i = 0 THEN texts ELSE step(i, g[i - 1])]
    OBVIOUS
  <2> QED BY <2>1
<1>4. m - 1 \in Nat /\ m - 1 \notin Bad
  BY <1>2, <1>3
<1>5. PICK f : f = [i \in 0 .. (m - 1) |-> IF i = 0 THEN texts ELSE step(i, f[i - 1])]
  BY <1>4
<1> DEFINE g == [i \in 0 .. m |-> IF i < m THEN f[i] ELSE step(m, f[m - 1])]
<1>6. g = [i \in 0 .. m |-> IF i = 0 THEN texts ELSE step(i, g[i - 1])]
  <2>1. \A i \in 0 .. m : g[i] = IF i = 0 THEN texts ELSE step(i, g[i - 1])
    BY <1>3, <1>4, <1>5
  <2> QED BY <2>1
<1> QED BY <1>6

(* Patching texts gives texts, for the same files. *)
LEMMA PatchedType ==
    ASSUME NEW D, NEW texts \in [D -> Seq(Lines)],
           NEW hunks \in Seq([file : D, orig : Lines, prop : Lines])
    PROVE  Patched(texts, hunks) \in [D -> Seq(Lines)]
<1> DEFINE N == Len(hunks)
           after == CHOOSE g : Recursion(texts, hunks, N, g)
           Bad == {i \in 0 .. N : after[i] \notin [D -> Seq(Lines)]}
<1>1. N \in Nat
  OBVIOUS
<1>2. Patched(texts, hunks) = after[N]
  BY DEF Patched, Modified, Recursion
<1>3. Recursion(texts, hunks, N, after)
  BY <1>1, RecursionExists
<1> HIDE DEF after, N
<1>4. Bad = {}
  <2>1. SUFFICES ASSUME Bad # {} PROVE FALSE
    OBVIOUS
  <2>2. PICK m \in Bad : \A y \in Bad : m <= y
    <3>1. Bad \subseteq Nat
      OBVIOUS
    <3> QED BY <2>1, <3>1, LeastNumber
  <2>3. m # 0
    BY <1>1, <1>3 DEF Recursion
  <2>4. m - 1 \in 0 .. N /\ m - 1 \notin Bad /\ m \in 1 .. N
    <3>1. m \in 0 .. N
      OBVIOUS
    <3>2. m - 1 \in 0 .. N /\ m \in 1 .. N /\ ~(m <= m - 1)
      BY <3>1, <2>3, <1>1
    <3> HIDE DEF Bad
    <3> QED BY <3>2, <2>2
  <2>5. after[m - 1] \in [D -> Seq(Lines)]
    BY <2>4
  <2>6. hunks[m] \in [file : D, orig : Lines, prop : Lines]
    <3>1. m \in 1 .. Len(hunks)
      BY <2>4 DEF N
    <3> QED BY <3>1, ElementOfSeq
  <2> DEFINE file == hunks[m].file
             text == ReplaceFirst(after[m - 1][file], hunks[m].orig, hunks[m].prop)
  <2>7. after[m] = [after[m - 1] EXCEPT ![file] = text]
    <3>1. m \in 0 .. N
      BY <2>4, <1>1
    <3> QED BY <2>3, <3>1, <1>3 DEF Recursion
  <2> HIDE DEF text
  <2>8. text \in Seq(Lines)
    <3>1. after[m - 1][file] \in Seq(Lines) /\ hunks[m].prop \in Lines
      BY <2>5, <2>6
    <3> QED BY <3>1, ReplaceFirstType DEF text
  <2>9. after[m] \in [D -> Seq(Lines)]
    BY <2>5, <2>7, <2>8
  <2> QED BY <2>9, <2>2
<1> QED BY <1>1, <1>2, <1>4

-----------------------------------------------------------------------------
(* What one call's step leaves alone. *)

Global ==
    /\ disk \in [Files -> Seq(Lines)] /\ edits \in 0 .. MaxEdits
    /\ state \in [Calls -> States] /\ pc \in [Calls -> Labels]
    /\ \A t \in issued : IsToken(t)

CallType(l) ==
    /\ snap[l] \in Texts(l) /\ backup[l] \in Texts(l) /\ buffer[l] \in Texts(l)
    /\ IsToken(token[l])
    /\ rollback[l] \in {"NOT_NEEDED", "SUCCESS", "CRITICAL_RECOVERY_FAILURE"}
    /\ wrote[l] \cup disturbed[l] \subseteq Targets(l)
    /\ At(l, "done") => state[l] \in {"REJECTED", "ROLLED_BACK", "VERIFIED_FIXED"}

(* The step changes no local of the call ... *)
Same(m) ==
    /\ state'[m] = state[m] /\ pc'[m] = pc[m] /\ snap'[m] = snap[m]
    /\ token'[m] = token[m] /\ backup'[m] = backup[m] /\ buffer'[m] = buffer[m]
    /\ todo'[m] = todo[m] /\ rollback'[m] = rollback[m] /\ wrote'[m] = wrote[m]
    /\ issued \subseteq issued'

(* ... and, unless it is recorded, none of its targets. *)
Unseen(m) ==
    /\ disturbed'[m] \subseteq Targets(m)
    /\ disturbed'[m] = {} =>
          disturbed[m] = {} /\ \A f \in Targets(m) : disk'[f] = disk[f]

(* The type invariant, call by call.                                       *)
LEMMA TypeParts == TypeOK <=> Global /\ \A l \in Calls : CallType(l)
BY DEF TypeOK, Global, CallType

(* What the assumption says of a call's proposal. *)
LEMMA ProposalFacts ==
    ASSUME NEW l \in Calls
    PROVE  /\ Targets(l) \subseteq Files /\ Hunks(l) \in Seq(Hunk(l))
           /\ Proposals[l].files \in Seq(Targets(l))
           /\ Finding[l].file \in Files
<1>1. Targets(l) \subseteq Files /\ Hunks(l) \in Seq(Hunk(l)) /\ Finding[l].file \in Files
      /\ Proposals[l].files \in Seq(Files)
  BY RemediationAssumption DEF Hunk
<1> DEFINE files == Proposals[l].files
<1>2. files \in [1 .. Len(files) -> Files] /\ Len(files) \in Nat
  BY <1>1, LenProperties
<1>3. files \in [1 .. Len(files) -> Targets(l)]
  BY <1>2 DEF Targets
<1>4. files \in Seq(Targets(l))
  <2> HIDE DEF files
  <2> QED BY <1>2, <1>3, SeqDef
<1> QED BY <1>1, <1>4

(* A call's patch of its targets' texts. *)
LEMMA CallPatch ==
    ASSUME NEW l \in Calls, NEW texts \in [Targets(l) -> Seq(Lines)]
    PROVE  Patched(texts, Hunks(l)) \in [Targets(l) -> Seq(Lines)]
<1>1. Hunks(l) \in Seq([file : Targets(l), orig : Lines, prop : Lines])
  BY ProposalFacts DEF Hunk
<1> QED BY <1>1, PatchedType

(* What is read from the disk is a text for each target. *)
LEMMA ContentsType ==
    ASSUME NEW l \in Calls, disk \in [Files -> Seq(Lines)]
    PROVE  /\ Contents(l) \in [Targets(l) -> Seq(Lines)] /\ Contents(l) \in Texts(l)
           /\ NoContents(l) \in Texts(l)
BY ProposalFacts DEF Contents, NoContents, Texts

(* A call keeps what it knows when a step is not its own. *)
LEMMA OthersKeep ==
    ASSUME NEW m \in Calls, CallType(m), CallInv(m), Same(m), Unseen(m)
    PROVE  CallType(m)' /\ CallInv(m)'
<1>1. CallType(m)'
  BY DEF CallType, Same, Unseen, At
<1>2. StateAgrees(m)' /\ HoldsToken(m)' /\ Locals(m)'
  BY DEF CallInv, StateAgrees, HoldsToken, Locals, Same
<1>3. ASSUME disturbed'[m] = {} PROVE Alone(m)'
  <2>1. Alone(m) /\ \A f \in Targets(m) : disk'[f] = disk[f]
    BY <1>3 DEF CallInv, Unseen
  <2>2. Contents(m)' = Contents(m) /\ Left(m)' = Left(m)
    BY <2>1 DEF Contents, Left, Same
  <2>3. Finding[m].file \in Targets(m) => Matches(m)' = Matches(m)
    BY <2>1 DEF Matches
  <2> QED BY <2>1, <2>2, <2>3 DEF Alone, Same
<1> QED BY <1>1, <1>2, <1>3 DEF CallInv

(* A step of call l preserves the invariant if it preserves l's part and   *)
(* leaves the others alone.                                                *)
LEMMA Frame ==
    ASSUME NEW l \in Calls, IInv, Global', Shape', CallType(l)', CallInv(l)',
           \A m \in Calls \ {l} : Same(m) /\ Unseen(m)
    PROVE  IInv'
<1>1. ASSUME NEW m \in Calls PROVE CallType(m)' /\ CallInv(m)'
  <2>1. CASE m = l
    BY <2>1
  <2>2. CASE m # l
    BY <2>2, OthersKeep, TypeParts DEF IInv
  <2> QED BY <2>1, <2>2
<1>2. TypeOK'
  BY <1>1 DEF TypeOK, Global, CallType
<1> QED BY <1>1, <1>2 DEF IInv

(* A write by call l disturbs the calls it concerns. *)
LEMMA WriteFacts ==
    ASSUME NEW l \in Calls, IInv, NEW f \in Targets(l), NEW text \in Seq(Lines),
           Write(l, f, text)
    PROVE  /\ disk' \in [Files -> Seq(Lines)] /\ disk'[f] = text
           /\ \A g \in Files : g # f => disk'[g] = disk[g]
           /\ DOMAIN wrote' = Calls /\ DOMAIN disturbed' = Calls
           /\ wrote'[l] = wrote[l] \cup {f} /\ disturbed'[l] = disturbed[l]
           /\ \A m \in Calls \ {l} : wrote'[m] = wrote[m] /\ Unseen(m)
<1>1. f \in Files /\ disk \in [Files -> Seq(Lines)] /\ Shape
  BY ProposalFacts DEF IInv, TypeOK
<1>2. /\ disk' \in [Files -> Seq(Lines)] /\ disk'[f] = text
      /\ \A g \in Files : g # f => disk'[g] = disk[g]
  BY <1>1 DEF Write
<1>3. /\ DOMAIN wrote' = Calls /\ DOMAIN disturbed' = Calls
      /\ wrote'[l] = wrote[l] \cup {f} /\ disturbed'[l] = disturbed[l]
      /\ \A m \in Calls \ {l} : wrote'[m] = wrote[m]
  BY <1>1 DEF Write, Shape
<1>4. ASSUME NEW m \in Calls \ {l} PROVE Unseen(m)
  <2>1. disturbed[m] \subseteq Targets(m) /\ Targets(m) \subseteq Files
    BY ProposalFacts DEF IInv, TypeOK
  <2>2. disturbed'[m] = IF f \in Targets(m) /\ text # disk[f]
                        THEN disturbed[m] \cup {f} ELSE disturbed[m]
    BY DEF Write
  <2> QED BY <2>1, <2>2, <1>2 DEF Unseen
<1> QED BY <1>2, <1>3, <1>4

(* A step that changes no file leaves every other call as it was. *)
LEMMA QuietFacts ==
    ASSUME NEW m \in Calls, IInv, disk' = disk, disturbed'[m] = disturbed[m]
    PROVE  Unseen(m)
BY DEF IInv, TypeOK, Unseen

-----------------------------------------------------------------------------
(* The steps of a call. *)

(* Proposing, with or without success: nothing has been written and no     *)
(* token is held.                                                          *)
LEMMA ProposeStep ==
    ASSUME NEW l \in Calls, IInv, plan_and_propose(l) \/ proposing_raises(l)
    PROVE  IInv'
<1>1. /\ disk' = disk /\ disturbed' = disturbed /\ edits' = edits /\ issued' = issued
      /\ wrote' = wrote /\ token' = token /\ backup' = backup /\ buffer' = buffer
      /\ todo' = todo /\ rollback' = rollback
      /\ pc[l] = "start"
      /\ snap' = snap \/ snap' = [snap EXCEPT ![l] = Contents(l)]
  BY DEF plan_and_propose, proposing_raises, localVars, At
<1>2. \/ /\ pc' = [pc EXCEPT ![l] = "review"]
         /\ state' = [state EXCEPT ![l] = "AWAITING_APPROVAL"]
      \/ /\ pc' = [pc EXCEPT ![l] = "raised"]
         /\ state' = [state EXCEPT ![l] = "RCA_ESTABLISHED"]
  BY DEF plan_and_propose, proposing_raises, transition, Goto
<1>3. Global /\ Shape /\ CallType(l) /\ CallInv(l)
  BY TypeParts DEF IInv
<1>4. Global'
  BY <1>1, <1>2, <1>3 DEF Global, Labels, Ended, States, VALID_TRANSITIONS
<1>5. Shape'
  BY <1>1, <1>3 DEF Shape
<1>6. CallType(l)'
  <2>1. snap'[l] \in Texts(l)
    BY <1>1, <1>3, ContentsType DEF Global, CallType, Shape
  <2>2. pc'[l] # "done"
    BY <1>2, <1>3 DEF Global
  <2> QED BY <2>1, <2>2, <1>1, <1>3 DEF CallType, At
<1>7. CallInv(l)'
  <2>1. /\ wrote'[l] = {}
        /\ \/ pc'[l] = "review" /\ state'[l] = "AWAITING_APPROVAL"
           \/ pc'[l] = "raised" /\ state'[l] = "RCA_ESTABLISHED"
    BY <1>1, <1>2, <1>3 DEF CallInv, HoldsToken, Global
  <2> QED BY <2>1 DEF CallInv, StateAgrees, HoldsToken, Locals, Alone, Applying
<1>8. ASSUME NEW m \in Calls \ {l} PROVE Same(m) /\ Unseen(m)
  BY <1>1, <1>2, <1>3, QuietFacts DEF Same, Global, Shape
<1> QED BY <1>4, <1>5, <1>6, <1>7, <1>8, Frame

(* A token that verify_valid accepts is a token for the call's texts. *)
LEMMA AcceptedToken ==
    ASSUME NEW l \in Calls, NEW t, IsToken(t), NEW s, NEW expired,
           verify_valid(t, l, s, expired)
    PROVE  /\ t # NoToken /\ t.status = "APPROVED"
           /\ Proposals[t.call] = Proposals[l] /\ t.snapshot = s
BY DEF verify_valid

(* The decision on the approval. *)
LEMMA ApproveStep ==
    ASSUME NEW l \in Calls, IInv, approve(l)
    PROVE  IInv'
<1>1. /\ disk' = disk /\ disturbed' = disturbed /\ edits' = edits
      /\ wrote' = wrote /\ snap' = snap /\ backup' = backup /\ buffer' = buffer
      /\ todo' = todo /\ rollback' = rollback /\ pc[l] = "review"
  BY DEF approve, At
<1>2. Global /\ Shape /\ CallType(l) /\ CallInv(l)
  BY TypeParts DEF IInv
<1>3. PICK t \in issued \cup {Token(l, snap[l]), NoToken}, expired \in BOOLEAN :
        /\ issued' = IF t = NoToken THEN issued ELSE issued \cup {t}
        /\ IF verify_valid(t, l, snap[l], expired)
           THEN /\ transition(l, <<"APPROVED", "SNAPSHOT_VERIFIED", "APPLYING">>)
                /\ token' = [token EXCEPT ![l] = t]
                /\ Goto(l, "preflight")
           ELSE /\ transition(l, <<"REJECTED">>)
                /\ Goto(l, "done")
                /\ UNCHANGED token
  BY DEF approve
<1>4. IsToken(t)
  <2>1. IsToken(Token(l, snap[l])) /\ IsToken(NoToken)
    BY <1>2 DEF IsToken, Token, CallType
  <2> QED BY <2>1, <1>2 DEF Global
<1>5. \/ /\ pc' = [pc EXCEPT ![l] = "preflight"] /\ state' = [state EXCEPT ![l] = "APPLYING"]
         /\ token' = [token EXCEPT ![l] = t]
         /\ t \in issued' /\ t # NoToken /\ t.status = "APPROVED"
         /\ Proposals[t.call] = Proposals[l] /\ t.snapshot = snap[l]
      \/ /\ pc' = [pc EXCEPT ![l] = "done"] /\ state' = [state EXCEPT ![l] = "REJECTED"]
         /\ token' = token
  <2>1. CASE verify_valid(t, l, snap[l], expired)
    BY <2>1, <1>3, <1>4, AcceptedToken DEF transition, Goto
  <2>2. CASE ~verify_valid(t, l, snap[l], expired)
    BY <2>2, <1>3 DEF transition, Goto
  <2> QED BY <2>1, <2>2
<1>6. Global'
  <2>1. \A u \in issued' : IsToken(u)
    BY <1>2, <1>3, <1>4 DEF Global
  <2>2. (\A u \in issued : IsToken(u))'
    BY <2>1 DEF IsToken, Texts
  <2> QED BY <2>2, <1>1, <1>2, <1>5 DEF Global, Labels, Ended, States, VALID_TRANSITIONS
<1>7. Shape'
  BY <1>1, <1>2, <1>5 DEF Shape
<1>8. CallType(l)'
  <2>1. IsToken(token'[l])
    BY <1>2, <1>4, <1>5 DEF CallType, Shape
  <2>2. pc'[l] = "done" => state'[l] = "REJECTED"
    BY <1>2, <1>5 DEF Global
  <2> QED BY <2>1, <2>2, <1>1, <1>2 DEF CallType, At, IsToken, Texts
<1>9. CallInv(l)'
  <2>1. CASE pc' = [pc EXCEPT ![l] = "preflight"]
    <3>1. /\ pc'[l] = "preflight" /\ state'[l] = "APPLYING" /\ token'[l] = t
          /\ t \in issued' /\ t # NoToken /\ t.status = "APPROVED"
          /\ Proposals[t.call] = Proposals[l] /\ t.snapshot = snap'[l]
      BY <2>1, <1>1, <1>2, <1>5 DEF Global, Shape
    <3> QED BY <3>1 DEF CallInv, StateAgrees, HoldsToken, Locals, Alone, Applying
  <2>2. CASE pc' = [pc EXCEPT ![l] = "done"]
    <3>1. pc'[l] = "done" /\ state'[l] = "REJECTED" /\ wrote'[l] = {}
      BY <2>2, <1>1, <1>2, <1>5 DEF Global, CallInv, HoldsToken
    <3> QED BY <3>1 DEF CallInv, StateAgrees, HoldsToken, Locals, Alone, Applying
  <2> QED BY <2>1, <2>2, <1>5
<1>10. ASSUME NEW m \in Calls \ {l} PROVE Same(m) /\ Unseen(m)
  <2>1. issued \subseteq issued'
    BY <1>3
  <2> QED BY <2>1, <1>1, <1>2, <1>5, QuietFacts DEF Same, Global, Shape
<1> QED BY <1>6, <1>7, <1>8, <1>9, <1>10, Frame

(* A call that holds its token keeps it. *)
LEMMA KeepsToken ==
    ASSUME NEW l \in Calls, HoldsToken(l), pc[l] \in Applying,
           token'[l] = token[l], snap'[l] = snap[l], pc'[l] \notin {"start", "review"},
           issued \subseteq issued'
    PROVE  HoldsToken(l)'
BY DEF HoldsToken

(* The first element of the work list and the others. *)
LEMMA WorkList ==
    ASSUME NEW T, NEW list \in Seq(T), list # <<>>
    PROVE  /\ Head(list) \in T /\ Tail(list) \in Seq(T)
           /\ \A x : x \in {list[i] : i \in 1 .. Len(list)} =>
                 x = Head(list) \/ x \in {Tail(list)[i] : i \in 1 .. Len(Tail(list))}
<1>1. /\ Head(list) \in T /\ Tail(list) \in Seq(T) /\ Len(Tail(list)) = Len(list) - 1
      /\ \A i \in 1 .. Len(Tail(list)) : Tail(list)[i] = list[i + 1]
      /\ Len(list) \in Nat
  BY HeadTailProperties
<1>2. ASSUME NEW i \in 1 .. Len(list)
      PROVE  list[i] = Head(list) \/ \E j \in 1 .. Len(Tail(list)) : list[i] = Tail(list)[j]
  <2>1. CASE i = 1
    BY <2>1
  <2>2. CASE i # 1
    <3>1. i - 1 \in 1 .. Len(Tail(list)) /\ (i - 1) + 1 = i
      BY <1>1, <2>2
    <3> QED BY <3>1, <1>1
  <2> QED BY <2>1, <2>2
<1> QED BY <1>1, <1>2

(* What the lifecycle makes of a failed apply: never the state for a       *)
(* failed recovery.                                                        *)
LEMMA FailedState ==
    ASSUME NEW l \in Calls, NEW status \in {"NOT_NEEDED", "SUCCESS", "CRITICAL_RECOVERY_FAILURE"},
           ApplyFailed(l, status)
    PROVE  state' = [state EXCEPT ![l] = "ROLLED_BACK"]
BY DEF ApplyFailed, transition

(* The preflight. *)
LEMMA PreflightStep ==
    ASSUME NEW l \in Calls, IInv, preflight(l)
    PROVE  IInv'
<1>1. /\ disk' = disk /\ issued' = issued /\ edits' = edits
      /\ wrote' = wrote /\ snap' = snap /\ token' = token /\ backup' = backup
      /\ buffer' = buffer /\ todo' = todo /\ pc[l] = "preflight"
  BY DEF preflight, At
<1>2. Global /\ Shape /\ CallType(l) /\ CallInv(l)
  BY TypeParts DEF IInv
<1>3. PICK expired \in BOOLEAN :
          IF verify_valid(token[l], l, Contents(l), expired)
          THEN /\ Goto(l, "reading") /\ UNCHANGED <<state, rollback>>
               /\ disturbed' = [disturbed EXCEPT ![l] = {}]
          ELSE Refused(l) /\ UNCHANGED disturbed
  BY DEF preflight
<1>4. \/ /\ pc' = [pc EXCEPT ![l] = "reading"] /\ state' = state /\ rollback' = rollback
         /\ disturbed' = [disturbed EXCEPT ![l] = {}]
         /\ token[l].snapshot = Contents(l)
      \/ /\ pc' = [pc EXCEPT ![l] = "done"] /\ state' = [state EXCEPT ![l] = "ROLLED_BACK"]
         /\ rollback' = [rollback EXCEPT ![l] = "NOT_NEEDED"]
         /\ disturbed' = disturbed
  <2>1. CASE verify_valid(token[l], l, Contents(l), expired)
    BY <2>1, <1>2, <1>3, AcceptedToken DEF Goto, CallType
  <2>2. CASE ~verify_valid(token[l], l, Contents(l), expired)
    BY <2>2, <1>3, FailedState DEF Goto, Refused
  <2> QED BY <2>1, <2>2
<1>5. Global'
  BY <1>1, <1>2, <1>4 DEF Global, Labels, Ended, States, VALID_TRANSITIONS
<1>6. Shape'
  BY <1>1, <1>2, <1>4 DEF Shape
<1>7. CallType(l)'
  <2>1. /\ rollback'[l] \in {"NOT_NEEDED", "SUCCESS", "CRITICAL_RECOVERY_FAILURE"}
        /\ disturbed'[l] \subseteq Targets(l)
        /\ pc'[l] = "done" => state'[l] = "ROLLED_BACK"
    BY <1>2, <1>4 DEF CallType, Shape, Global
  <2> QED BY <2>1, <1>1, <1>2 DEF CallType, At
<1>8. HoldsToken(l)'
  <2>1. pc'[l] \notin {"start", "review"}
    BY <1>2, <1>4 DEF Global
  <2> QED BY <2>1, <1>1, <1>2, KeepsToken DEF CallInv, Applying
<1>9. CallInv(l)'
  <2>1. CASE pc' = [pc EXCEPT ![l] = "reading"]
    <3>1. /\ pc'[l] = "reading" /\ state'[l] = "APPLYING"
          /\ Contents(l)' = token'[l].snapshot
      BY <2>1, <1>1, <1>2, <1>4 DEF Global, CallInv, StateAgrees, Applying, Contents
    <3> QED BY <3>1, <1>8 DEF CallInv, StateAgrees, Locals, Alone, Applying
  <2>2. CASE pc' = [pc EXCEPT ![l] = "done"]
    <3>1. pc'[l] = "done" /\ state'[l] = "ROLLED_BACK"
      BY <2>2, <1>2, <1>4 DEF Global
    <3> QED BY <3>1, <1>8 DEF CallInv, StateAgrees, Locals, Alone, Applying
  <2> QED BY <2>1, <2>2, <1>4
<1>10. ASSUME NEW m \in Calls \ {l} PROVE Same(m) /\ Unseen(m)
  <2>1. Same(m) /\ disturbed'[m] = disturbed[m]
    BY <1>1, <1>2, <1>4 DEF Same, Global, Shape
  <2> QED BY <2>1, <1>1, QuietFacts
<1> QED BY <1>5, <1>6, <1>7, <1>9, <1>10, Frame

(* Reading the targets and matching the hunks. *)
LEMMA ReadStep ==
    ASSUME NEW l \in Calls, IInv, read_targets(l)
    PROVE  IInv'
<1>1. /\ disk' = disk /\ issued' = issued /\ edits' = edits /\ disturbed' = disturbed
      /\ wrote' = wrote /\ snap' = snap /\ token' = token /\ pc[l] = "reading"
  BY DEF read_targets, At
<1>2. Global /\ Shape /\ CallType(l) /\ CallInv(l)
  BY TypeParts DEF IInv
<1>3. \/ /\ pc' = [pc EXCEPT ![l] = "writing"] /\ state' = state /\ rollback' = rollback
         /\ backup' = [backup EXCEPT ![l] = Contents(l)]
         /\ buffer' = [buffer EXCEPT ![l] = Patched(Contents(l), Hunks(l))]
         /\ todo' = [todo EXCEPT ![l] = Proposals[l].files]
      \/ /\ pc' = [pc EXCEPT ![l] = "done"] /\ state' = [state EXCEPT ![l] = "ROLLED_BACK"]
         /\ rollback' = [rollback EXCEPT ![l] = "NOT_NEEDED"]
         /\ backup' = backup /\ buffer' = buffer /\ todo' = todo
  <2>1. CASE HunksMatch(Contents(l), Hunks(l))
    BY <2>1 DEF read_targets, Goto
  <2>2. CASE ~HunksMatch(Contents(l), Hunks(l))
    BY <2>2, FailedState DEF read_targets, Goto, Refused
  <2> QED BY <2>1, <2>2
<1>4. Global'
  BY <1>1, <1>2, <1>3 DEF Global, Labels, Ended, States, VALID_TRANSITIONS
<1>5. Shape'
  BY <1>1, <1>2, <1>3 DEF Shape
<1>6. /\ Contents(l) \in [Targets(l) -> Seq(Lines)] /\ Contents(l) \in Texts(l)
      /\ Patched(Contents(l), Hunks(l)) \in Texts(l)
  <2>1. Contents(l) \in [Targets(l) -> Seq(Lines)] /\ Contents(l) \in Texts(l)
    BY <1>2, ContentsType DEF Global
  <2>2. Patched(Contents(l), Hunks(l)) \in [Targets(l) -> Seq(Lines)]
    BY <2>1, CallPatch
  <2> QED BY <2>1, <2>2 DEF Texts
<1>7. CallType(l)'
  <2>1. /\ rollback'[l] \in {"NOT_NEEDED", "SUCCESS", "CRITICAL_RECOVERY_FAILURE"}
        /\ backup'[l] \in Texts(l) /\ buffer'[l] \in Texts(l)
        /\ pc'[l] = "done" => state'[l] = "ROLLED_BACK"
    BY <1>2, <1>3, <1>6 DEF CallType, Shape, Global
  <2> QED BY <2>1, <1>1, <1>2 DEF CallType, At
<1>8. HoldsToken(l)'
  <2>1. pc'[l] \notin {"start", "review"}
    BY <1>2, <1>3 DEF Global
  <2> QED BY <2>1, <1>1, <1>2, KeepsToken DEF CallInv, Applying
<1>9. CallInv(l)'
  <2>1. CASE pc' = [pc EXCEPT ![l] = "writing"]
    <3>1. /\ pc'[l] = "writing" /\ state'[l] = "APPLYING"
          /\ backup'[l] = Contents(l) /\ buffer'[l] = Patched(backup'[l], Hunks(l))
          /\ todo'[l] = Proposals[l].files
      BY <2>1, <1>1, <1>2, <1>3 DEF Global, Shape, CallInv, StateAgrees, Applying
    <3>2. Locals(l)'
      BY <3>1, <1>6, ProposalFacts DEF Locals
    <3>3. Targets(l) = Left(l)'
      BY <3>1 DEF Targets, Left
    <3>4. disturbed'[l] = {} => backup'[l] = token'[l].snapshot
      BY <3>1, <1>1, <1>2 DEF CallInv, Alone
    <3> QED BY <3>1, <3>2, <3>3, <3>4, <1>8 DEF CallInv, StateAgrees, Alone, Applying
  <2>2. CASE pc' = [pc EXCEPT ![l] = "done"]
    <3>1. pc'[l] = "done" /\ state'[l] = "ROLLED_BACK"
      BY <2>2, <1>2, <1>3 DEF Global
    <3> QED BY <3>1, <1>8 DEF CallInv, StateAgrees, Locals, Alone, Applying
  <2> QED BY <2>1, <2>2, <1>3
<1>10. ASSUME NEW m \in Calls \ {l} PROVE Same(m) /\ Unseen(m)
  <2>1. Same(m)
    BY <1>1, <1>2, <1>3 DEF Same, Global, Shape
  <2> QED BY <2>1, <1>1, QuietFacts
<1> QED BY <1>4, <1>5, <1>7, <1>9, <1>10, Frame

(* The part that the steps that write a file have in common: such a step   *)
(* preserves the invariant if its work list and the disk still agree.      *)
LEMMA WriteStep ==
    ASSUME NEW l \in Calls, IInv, pc[l] \in Applying,
           NEW f \in Targets(l), NEW text \in Seq(Lines), Write(l, f, text),
           UNCHANGED <<state, snap, token, backup, buffer, issued, edits>>,
           NEW label \in Applying \cup {"raised"}, pc' = [pc EXCEPT ![l] = label],
           NEW list, todo' = [todo EXCEPT ![l] = list],
           NEW status \in {"NOT_NEEDED", "SUCCESS", "CRITICAL_RECOVERY_FAILURE"},
           rollback' = rollback \/ rollback' = [rollback EXCEPT ![l] = status],
           Locals(l)', disturbed[l] = {} => Alone(l)'
    PROVE  IInv'
<1>1. Global /\ Shape /\ CallType(l) /\ CallInv(l)
  BY TypeParts DEF IInv
<1>2. /\ disk' \in [Files -> Seq(Lines)]
      /\ DOMAIN wrote' = Calls /\ DOMAIN disturbed' = Calls
      /\ wrote'[l] = wrote[l] \cup {f} /\ disturbed'[l] = disturbed[l]
      /\ \A m \in Calls \ {l} : wrote'[m] = wrote[m] /\ Unseen(m)
  BY WriteFacts
<1>3. Global'
  BY <1>1, <1>2 DEF Global, Labels, Ended, Applying
<1>4. Shape'
  BY <1>1, <1>2 DEF Shape
<1>5. pc'[l] = label /\ state'[l] = "APPLYING" /\ rollback'[l] \in {rollback[l], status}
  BY <1>1 DEF Global, Shape, CallInv, StateAgrees
<1>6. CallType(l)'
  BY <1>1, <1>2, <1>5 DEF CallType, At, Applying
<1>7. CallInv(l)'
  <2>1. HoldsToken(l)'
    BY <1>1, <1>5, KeepsToken DEF CallInv, Applying
  <2>2. StateAgrees(l)'
    BY <1>5 DEF StateAgrees, Applying
  <2> QED BY <2>1, <2>2, <1>2 DEF CallInv
<1>8. ASSUME NEW m \in Calls \ {l} PROVE Same(m) /\ Unseen(m)
  BY <1>1, <1>2 DEF Same, Global, Shape
<1> QED BY <1>3, <1>4, <1>6, <1>7, <1>8, Frame

(* One file of the patch is written. *)
LEMMA WriteFileStep ==
    ASSUME NEW l \in Calls, IInv, write_file(l)
    PROVE  IInv'
<1> DEFINE f == Head(todo[l])
           text == buffer[l][f]
<1>1. /\ pc[l] = "writing" /\ todo[l] # <<>> /\ Write(l, f, text)
      /\ todo' = [todo EXCEPT ![l] = Tail(todo[l])]
      /\ UNCHANGED <<state, pc, snap, token, backup, buffer, rollback, issued, edits>>
  BY DEF write_file, At
<1>2. Global /\ Shape /\ CallType(l) /\ CallInv(l)
  BY TypeParts DEF IInv
<1>3. /\ todo[l] \in Seq(Targets(l)) /\ backup[l] \in [Targets(l) -> Seq(Lines)]
      /\ buffer[l] = Patched(backup[l], Hunks(l))
  BY <1>1, <1>2 DEF CallInv, Locals
<1>4. f \in Targets(l) /\ Tail(todo[l]) \in Seq(Targets(l))
  BY <1>1, <1>3, WorkList
<1>5. text \in Seq(Lines)
  <2>1. buffer[l] \in [Targets(l) -> Seq(Lines)]
    BY <1>3, CallPatch
  <2> QED BY <2>1, <1>4
<1>6. /\ disk'[f] = text /\ \A g \in Files : g # f => disk'[g] = disk[g]
  BY <1>1, <1>4, <1>5, WriteFacts
<1>7. todo'[l] = Tail(todo[l])
  BY <1>1, <1>2 DEF Shape
<1>8. Locals(l)'
  BY <1>1, <1>3, <1>4, <1>7 DEF Locals
<1>9. disturbed[l] = {} => Alone(l)'
  <2> SUFFICES ASSUME disturbed[l] = {} PROVE Alone(l)'
    OBVIOUS
  <2>1. backup[l] = token[l].snapshot /\ \A g \in Targets(l) \ Left(l) : disk[g] = buffer[l][g]
    BY <1>1, <1>2 DEF CallInv, Alone
  <2>2. ASSUME NEW g \in Targets(l), g \notin Left(l)' PROVE disk'[g] = buffer[l][g]
    <3>1. g = f \/ g \notin Left(l)
      <4>1. g \notin {Tail(todo[l])[i] : i \in 1 .. Len(Tail(todo[l]))}
        BY <2>2, <1>7 DEF Left
      <4> QED BY <4>1, <1>1, <1>3, WorkList DEF Left
    <3> QED BY <3>1, <2>1, <1>6, ProposalFacts
  <2>3. state[l] = "APPLYING"
    BY <1>1, <1>2 DEF CallInv, StateAgrees, Applying
  <2> QED BY <2>1, <2>2, <2>3, <1>1 DEF Alone
<1>10. /\ pc' = [pc EXCEPT ![l] = "writing"] /\ pc[l] \in Applying /\ "writing" \in Applying
  BY <1>1, <1>2 DEF Global, Shape, CallType, Applying
<1> HIDE DEF text, f
<1> QED BY <1>1, <1>4, <1>5, <1>8, <1>9, <1>10, WriteStep

(* A write fails: every target is to be restored. *)
LEMMA WriteFailsStep ==
    ASSUME NEW l \in Calls, IInv, write_fails(l)
    PROVE  IInv'
<1> DEFINE f == Head(todo[l])
<1>1. /\ pc[l] = "writing" /\ todo[l] # <<>>
      /\ pc' = [pc EXCEPT ![l] = "restoring"]
      /\ todo' = [todo EXCEPT ![l] = Proposals[l].files]
      /\ rollback' = [rollback EXCEPT ![l] = "SUCCESS"]
      /\ UNCHANGED <<state, snap, token, backup, buffer, issued, edits>>
  BY DEF write_fails, At, Goto
<1>2. PICK text \in {<<>>, disk[f]} : Write(l, f, text)
  BY DEF write_fails
<1>3. Global /\ Shape /\ CallType(l) /\ CallInv(l)
  BY TypeParts DEF IInv
<1>4. /\ todo[l] \in Seq(Targets(l)) /\ backup[l] \in [Targets(l) -> Seq(Lines)]
      /\ disturbed[l] = {} => backup[l] = token[l].snapshot
  BY <1>1, <1>3 DEF CallInv, Locals, Alone
<1>5. f \in Targets(l)
  BY <1>1, <1>4, WorkList
<1>6. text \in Seq(Lines)
  BY <1>2, <1>3, <1>5, ProposalFacts, EmptySeq DEF Global
<1>7. pc'[l] = "restoring" /\ todo'[l] = Proposals[l].files /\ state'[l] = "APPLYING"
  BY <1>1, <1>3 DEF Shape, Global, CallInv, StateAgrees, Applying
<1>8. Locals(l)'
  BY <1>1, <1>4, <1>7, ProposalFacts DEF Locals
<1>9. disturbed[l] = {} => Alone(l)'
  <2>1. Targets(l) = Left(l)'
    BY <1>7 DEF Left, Targets
  <2> QED BY <2>1, <1>1, <1>4, <1>7 DEF Alone
<1>10. pc[l] \in Applying /\ "restoring" \in Applying
  BY <1>1 DEF Applying
<1> HIDE DEF f
<1> QED BY <1>1, <1>2, <1>5, <1>6, <1>8, <1>9, <1>10, WriteStep

(* One file is restored, or its restoration fails and is remembered. *)
LEMMA RestoreStep ==
    ASSUME NEW l \in Calls, IInv, restore_file(l) \/ restore_fails(l)
    PROVE  IInv'
<1> DEFINE f == Head(todo[l])
<1>1. /\ pc[l] \in {"restoring", "reverting"} /\ todo[l] # <<>> /\ pc' = pc
      /\ todo' = [todo EXCEPT ![l] = Tail(todo[l])]
      /\ UNCHANGED <<state, snap, token, backup, buffer, issued, edits>>
  BY DEF restore_file, restore_fails, Restoring, At
<1>2. Global /\ Shape /\ CallType(l) /\ CallInv(l)
  BY TypeParts DEF IInv
<1>3. todo[l] \in Seq(Targets(l)) /\ backup[l] \in [Targets(l) -> Seq(Lines)]
  BY <1>1, <1>2 DEF CallInv, Locals
<1>4. f \in Targets(l) /\ Tail(todo[l]) \in Seq(Targets(l))
  BY <1>1, <1>3, WorkList
<1>5. todo'[l] = Tail(todo[l]) /\ state[l] = "APPLYING"
  BY <1>1, <1>2 DEF Shape, CallInv, StateAgrees, Applying
<1>6. Locals(l)'
  BY <1>1, <1>3, <1>4, <1>5 DEF Locals
<1>7. pc' = [pc EXCEPT ![l] = pc[l]] /\ pc[l] \in Applying
  BY <1>1, <1>2 DEF Global, Applying
<1>8. CASE restore_file(l)
  <2> DEFINE text == backup[l][f]
  <2>1. Write(l, f, text) /\ rollback' = rollback
    BY <1>8 DEF restore_file
  <2>2. text \in Seq(Lines)
    BY <1>3, <1>4
  <2>3. disk'[f] = text /\ \A g \in Files : g # f => disk'[g] = disk[g]
    BY <2>1, <2>2, <1>4, WriteFacts
  <2>4. disturbed[l] = {} => Alone(l)'
    <3> SUFFICES ASSUME disturbed[l] = {}, rollback[l] = "SUCCESS", pc[l] = "restoring" PROVE Alone(l)'
      BY <1>1, <1>2, <1>5, <2>1 DEF CallInv, Alone
    <3>0. backup[l] = token[l].snapshot
      BY <1>2 DEF CallInv, Alone
    <3>1. \A g \in Targets(l) \ Left(l) : disk[g] = backup[l][g]
      BY <1>1, <1>2 DEF CallInv, Alone
    <3>2. ASSUME NEW g \in Targets(l), g \notin Left(l)' PROVE disk'[g] = backup[l][g]
      <4>1. g = f \/ g \notin Left(l)
        <5>1. g \notin {Tail(todo[l])[i] : i \in 1 .. Len(Tail(todo[l]))}
          BY <3>2, <1>5 DEF Left
        <5> QED BY <5>1, <1>1, <1>3, WorkList DEF Left
      <4> QED BY <4>1, <3>1, <2>3, ProposalFacts
    <3> QED BY <3>0, <3>2, <1>1, <1>5 DEF Alone
  <2> HIDE DEF text, f
  <2> QED BY <2>1, <2>2, <2>4, <1>1, <1>4, <1>6, <1>7, WriteStep
<1>9. CASE restore_fails(l)
  <2>1. PICK text \in {<<>>, disk[f]} : Write(l, f, text)
    BY <1>9 DEF restore_fails
  <2>2. rollback' = [rollback EXCEPT ![l] = "CRITICAL_RECOVERY_FAILURE"]
    BY <1>9 DEF restore_fails
  <2>3. text \in Seq(Lines)
    BY <2>1, <1>2, <1>4, ProposalFacts, EmptySeq DEF Global
  <2>4. disturbed[l] = {} => Alone(l)'
    <3>1. rollback'[l] # "SUCCESS"
      BY <2>2, <1>2 DEF Shape
    <3> QED BY <3>1, <1>1, <1>2, <1>5 DEF CallInv, Alone
  <2> HIDE DEF f
  <2> QED BY <2>1, <2>2, <2>3, <2>4, <1>1, <1>4, <1>6, <1>7, WriteStep
<1> QED BY <1>8, <1>9

(* The part that the steps that write nothing have in common. *)
LEMMA LocalStep ==
    ASSUME NEW l \in Calls, IInv, pc[l] \in Applying,
           UNCHANGED <<disk, snap, token, edits, wrote, disturbed>>,
           \A t \in issued' : IsToken(t), issued \subseteq issued',
           NEW label \in Applying \cup {"done"}, pc' = [pc EXCEPT ![l] = label],
           NEW outcome \in {"ROLLED_BACK", "VERIFIED_FIXED"},
           state' = IF label = "done" THEN [state EXCEPT ![l] = outcome] ELSE state,
           NEW texts \in Texts(l),
           backup' = backup \/ backup' = [backup EXCEPT ![l] = texts],
           buffer' = buffer \/ buffer' = [buffer EXCEPT ![l] = texts],
           NEW list, todo' = todo \/ todo' = [todo EXCEPT ![l] = list],
           rollback' = rollback \/ rollback' = [rollback EXCEPT ![l] = "SUCCESS"],
           Locals(l)', disturbed[l] = {} => Alone(l)'
    PROVE  IInv'
<1>1. Global /\ Shape /\ CallType(l) /\ CallInv(l)
  BY TypeParts DEF IInv
<1>2. Global'
  <2>1. (\A t \in issued : IsToken(t))'
    BY DEF IsToken, Texts
  <2> QED BY <2>1, <1>1 DEF Global, Labels, Ended, Applying, States, VALID_TRANSITIONS
<1>3. Shape'
  BY <1>1 DEF Shape
<1>4. /\ pc'[l] = label /\ state'[l] = IF label = "done" THEN outcome ELSE "APPLYING"
      /\ rollback'[l] \in {rollback[l], "SUCCESS"}
      /\ backup'[l] \in Texts(l) /\ buffer'[l] \in Texts(l)
  BY <1>1 DEF Global, Shape, CallInv, StateAgrees, CallType
<1>5. CallType(l)'
  BY <1>1, <1>4 DEF CallType, At
<1>6. CallInv(l)'
  <2>1. HoldsToken(l)'
    BY <1>1, <1>4, KeepsToken DEF CallInv, Applying
  <2>2. StateAgrees(l)'
    BY <1>4 DEF StateAgrees, Applying
  <2> QED BY <2>1, <2>2 DEF CallInv
<1>7. ASSUME NEW m \in Calls \ {l} PROVE Same(m) /\ Unseen(m)
  <2>1. Same(m)
    BY <1>1 DEF Same, Global, Shape
  <2> QED BY <2>1, QuietFacts
<1> QED BY <1>2, <1>3, <1>5, <1>6, <1>7, Frame

(* The end of a rollback of the applier. *)
LEMMA RestoredStep ==
    ASSUME NEW l \in Calls, IInv, restored(l)
    PROVE  IInv'
<1>1. /\ pc[l] \in {"restoring", "reverting"} /\ pc' = [pc EXCEPT ![l] = "done"]
      /\ backup' = [backup EXCEPT ![l] = NoContents(l)]
      /\ buffer' = [buffer EXCEPT ![l] = NoContents(l)]
      /\ UNCHANGED <<disk, snap, token, todo, rollback, issued, edits, wrote, disturbed>>
  BY DEF restored, Restoring, At, Goto, Forget
<1>2. Global /\ Shape /\ CallType(l)
  BY TypeParts DEF IInv
<1>3. state' = [state EXCEPT ![l] = "ROLLED_BACK"]
  BY <1>2, FailedState DEF restored, CallType
<1>4. pc'[l] = "done" /\ state'[l] = "ROLLED_BACK"
  BY <1>1, <1>2, <1>3 DEF Global
<1>5. Locals(l)' /\ (disturbed[l] = {} => Alone(l)')
  BY <1>4 DEF Locals, Alone
<1>6. NoContents(l) \in Texts(l) /\ pc[l] \in Applying /\ \A t \in issued' : IsToken(t)
  BY <1>1, <1>2, ContentsType DEF Global, Applying
<1> QED BY <1>1, <1>3, <1>5, <1>6, LocalStep

(* The snapshot after the last write fails: every target is to be restored. *)
LEMMA CaptureFailsStep ==
    ASSUME NEW l \in Calls, IInv, capture_fails(l)
    PROVE  IInv'
<1>1. /\ pc[l] = "writing" /\ pc' = [pc EXCEPT ![l] = "restoring"]
      /\ todo' = [todo EXCEPT ![l] = Proposals[l].files]
      /\ rollback' = [rollback EXCEPT ![l] = "SUCCESS"]
      /\ UNCHANGED <<disk, state, snap, token, backup, buffer, issued, edits, wrote, disturbed>>
  BY DEF capture_fails, At, Goto
<1>2. Global /\ Shape /\ CallType(l) /\ CallInv(l)
  BY TypeParts DEF IInv
<1>3. pc'[l] = "restoring" /\ todo'[l] = Proposals[l].files /\ state'[l] = "APPLYING"
  BY <1>1, <1>2 DEF Global, Shape, CallInv, StateAgrees, Applying
<1>4. /\ backup[l] \in [Targets(l) -> Seq(Lines)]
      /\ disturbed[l] = {} => backup[l] = token[l].snapshot
  BY <1>1, <1>2 DEF CallInv, Locals, Alone
<1>5. Locals(l)'
  BY <1>1, <1>3, <1>4, ProposalFacts DEF Locals
<1>6. disturbed[l] = {} => Alone(l)'
  <2>1. Targets(l) = Left(l)'
    BY <1>3 DEF Left, Targets
  <2> QED BY <2>1, <1>1, <1>3, <1>4 DEF Alone
<1>7. /\ pc[l] \in Applying /\ "restoring" \in Applying /\ \A t \in issued' : IsToken(t)
      /\ state' = IF "restoring" = "done" THEN [state EXCEPT ![l] = "ROLLED_BACK"] ELSE state
      /\ snap[l] \in Texts(l)
  BY <1>1, <1>2 DEF Global, Applying, CallType
<1> QED BY <1>1, <1>5, <1>6, <1>7, LocalStep

(* The patch is reported applied: every file has been written. *)
LEMMA AppliedStep ==
    ASSUME NEW l \in Calls, IInv, applied(l)
    PROVE  IInv'
<1>1. /\ pc[l] = "writing" /\ todo[l] = <<>> /\ pc' = [pc EXCEPT ![l] = "applied"]
      /\ issued' = issued \cup {[token[l] EXCEPT !.status = "USED"]}
      /\ backup' = [backup EXCEPT ![l] = NoContents(l)]
      /\ buffer' = [buffer EXCEPT ![l] = NoContents(l)]
      /\ UNCHANGED <<disk, state, snap, token, todo, rollback, edits, wrote, disturbed>>
  BY DEF applied, At, Goto, Forget
<1>2. Global /\ Shape /\ CallType(l) /\ CallInv(l)
  BY TypeParts DEF IInv
<1>3. pc'[l] = "applied" /\ state'[l] = "APPLYING"
  BY <1>1, <1>2 DEF Global, CallInv, StateAgrees, Applying
<1>4. \A t \in issued' : IsToken(t)
  <2>1. token[l] # NoToken /\ IsToken(token[l])
    BY <1>1, <1>2 DEF CallInv, HoldsToken, Applying, CallType
  <2>2. PICK m \in Calls :
          token[l] \in [call : {m}, snapshot : Texts(m), status : {"APPROVED", "USED"}]
    BY <2>1 DEF IsToken
  <2>3. [token[l] EXCEPT !.status = "USED"]
          \in [call : {m}, snapshot : Texts(m), status : {"APPROVED", "USED"}]
    BY <2>2
  <2>4. IsToken([token[l] EXCEPT !.status = "USED"])
    BY <2>3 DEF IsToken
  <2> QED BY <2>4, <1>1, <1>2 DEF Global
<1>5. Locals(l)'
  BY <1>3 DEF Locals
<1>6. disturbed[l] = {} => Alone(l)'
  <2> SUFFICES ASSUME disturbed[l] = {} PROVE Contents(l)' = Patched(token'[l].snapshot, Hunks(l))
    BY <1>3 DEF Alone
  <2>1. /\ backup[l] = token[l].snapshot /\ buffer[l] = Patched(backup[l], Hunks(l))
        /\ backup[l] \in [Targets(l) -> Seq(Lines)]
        /\ \A g \in Targets(l) \ Left(l) : disk[g] = buffer[l][g]
    BY <1>1, <1>2 DEF CallInv, Alone, Locals
  <2>2. Left(l) = {}
    BY <1>1 DEF Left
  <2>3. buffer[l] \in [Targets(l) -> Seq(Lines)]
    BY <2>1, CallPatch
  <2>4. Contents(l)' = buffer[l]
    BY <2>1, <2>2, <2>3, <1>1 DEF Contents
  <2> QED BY <2>1, <2>4, <1>1
<1>7. /\ NoContents(l) \in Texts(l) /\ pc[l] \in Applying /\ "applied" \in Applying
      /\ state' = IF "applied" = "done" THEN [state EXCEPT ![l] = "ROLLED_BACK"] ELSE state
  BY <1>1, <1>2, ContentsType DEF Global, Applying
<1> QED BY <1>1, <1>4, <1>5, <1>6, <1>7, LocalStep

(* The rescan, and the decision it leads to. *)
LEMMA RescanStep ==
    ASSUME NEW l \in Calls, IInv, rescan(l)
    PROVE  IInv'
<1>1. /\ pc[l] = "applied"
      /\ UNCHANGED <<disk, state, snap, token, backup, buffer, rollback, issued, edits,
                     wrote, disturbed>>
  BY DEF rescan, At
<1>2. Global /\ Shape /\ CallType(l) /\ CallInv(l)
  BY TypeParts DEF IInv
<1>3. \/ /\ l \notin Rescanned \/ Matches(l) = {}
         /\ pc' = [pc EXCEPT ![l] = "testing"] /\ todo' = todo
      \/ pc' = [pc EXCEPT ![l] = "undoing"] /\ todo' = [todo EXCEPT ![l] = Hunks(l)]
  BY DEF rescan, Goto
<1>4. /\ pc[l] \in Applying /\ "testing" \in Applying /\ "undoing" \in Applying
      /\ \A t \in issued' : IsToken(t)
      /\ state[l] = "APPLYING" /\ snap[l] \in Texts(l)
  BY <1>1, <1>2 DEF Global, Applying, CallInv, StateAgrees, CallType
<1>5. CASE pc' = [pc EXCEPT ![l] = "testing"]
  <2>1. pc'[l] = "testing" /\ (l \notin Rescanned \/ Matches(l) = {}) /\ todo' = todo
    BY <1>2, <1>3, <1>5 DEF Global
  <2>2. Locals(l)'
    BY <2>1 DEF Locals
  <2>3. Matches(l)' = Matches(l) /\ Contents(l)' = Contents(l)
    BY <1>1 DEF Matches, Contents
  <2>4. disturbed[l] = {} => Alone(l)'
    BY <2>1, <2>3, <1>1, <1>2, <1>4 DEF CallInv, Alone
  <2>5. state' = IF "testing" = "done" THEN [state EXCEPT ![l] = "ROLLED_BACK"] ELSE state
    BY <1>1
  <2> QED BY <2>1, <2>2, <2>4, <2>5, <1>1, <1>4, <1>5, LocalStep
<1>6. CASE pc' = [pc EXCEPT ![l] = "undoing"]
  <2>1. pc'[l] = "undoing" /\ todo' = [todo EXCEPT ![l] = Hunks(l)] /\ todo'[l] = Hunks(l)
    BY <1>2, <1>3, <1>6 DEF Global, Shape
  <2>2. Locals(l)'
    BY <2>1, ProposalFacts DEF Locals
  <2>3. disturbed[l] = {} => Alone(l)'
    BY <2>1, <1>1, <1>4 DEF Alone
  <2>4. state' = IF "undoing" = "done" THEN [state EXCEPT ![l] = "ROLLED_BACK"] ELSE state
    BY <1>1
  <2> QED BY <2>1, <2>2, <2>3, <2>4, <1>1, <1>4, <1>6, LocalStep
<1> QED BY <1>3, <1>5, <1>6

(* The rescan raises: the rollback restores what is on disk now. *)
LEMMA RescanRaisesStep ==
    ASSUME NEW l \in Calls, IInv, rescan_raises(l)
    PROVE  IInv'
<1>1. /\ pc[l] = "applied" /\ pc' = [pc EXCEPT ![l] = "reverting"]
      /\ backup' = [backup EXCEPT ![l] = Contents(l)]
      /\ todo' = [todo EXCEPT ![l] = Proposals[l].files]
      /\ rollback' = [rollback EXCEPT ![l] = "SUCCESS"]
      /\ UNCHANGED <<disk, state, snap, token, buffer, issued, edits, wrote, disturbed>>
  BY DEF rescan_raises, At, Goto
<1>2. Global /\ Shape /\ CallType(l) /\ CallInv(l)
  BY TypeParts DEF IInv
<1>3. /\ pc'[l] = "reverting" /\ backup'[l] = Contents(l) /\ todo'[l] = Proposals[l].files
      /\ state'[l] = "APPLYING"
  BY <1>1, <1>2 DEF Global, Shape, CallInv, StateAgrees, Applying
<1>4. Contents(l) \in [Targets(l) -> Seq(Lines)] /\ Contents(l) \in Texts(l)
  BY <1>2, ContentsType DEF Global
<1>5. Locals(l)'
  BY <1>3, <1>4, ProposalFacts DEF Locals
<1>6. disturbed[l] = {} => Alone(l)'
  BY <1>3 DEF Alone
<1>7. /\ pc[l] \in Applying /\ "reverting" \in Applying /\ \A t \in issued' : IsToken(t)
      /\ state' = IF "reverting" = "done" THEN [state EXCEPT ![l] = "ROLLED_BACK"] ELSE state
  BY <1>1, <1>2 DEF Global, Applying
<1> QED BY <1>1, <1>4, <1>5, <1>6, <1>7, LocalStep

(* The tests decide. *)
LEMMA TestsStep ==
    ASSUME NEW l \in Calls, IInv, tests_pass(l) \/ tests_fail(l)
    PROVE  IInv'
<1>1. /\ pc[l] = "testing"
      /\ UNCHANGED <<disk, snap, token, backup, buffer, rollback, issued, edits,
                     wrote, disturbed>>
  BY DEF tests_pass, tests_fail, At, localVars
<1>2. Global /\ Shape /\ CallType(l) /\ CallInv(l)
  BY TypeParts DEF IInv
<1>3. /\ pc[l] \in Applying /\ "undoing" \in Applying
      /\ \A t \in issued' : IsToken(t)
      /\ state[l] = "APPLYING" /\ snap[l] \in Texts(l)
  BY <1>1, <1>2 DEF Global, Applying, CallInv, StateAgrees, CallType
<1>4. CASE tests_pass(l)
  <2>1. /\ pc' = [pc EXCEPT ![l] = "done"] /\ state' = [state EXCEPT ![l] = "VERIFIED_FIXED"]
        /\ todo' = todo
    BY <1>4 DEF tests_pass, Goto, transition, localVars
  <2>2. pc'[l] = "done" /\ state'[l] = "VERIFIED_FIXED"
    BY <2>1, <1>2 DEF Global
  <2>3. Locals(l)'
    BY <2>2 DEF Locals
  <2>4. Matches(l)' = Matches(l) /\ Contents(l)' = Contents(l)
    BY <1>1 DEF Matches, Contents
  <2>5. disturbed[l] = {} => Alone(l)'
    BY <2>2, <2>4, <1>1, <1>2 DEF CallInv, Alone
  <2> QED BY <2>1, <2>3, <2>5, <1>1, <1>3, LocalStep
<1>5. CASE tests_fail(l)
  <2>1. /\ pc' = [pc EXCEPT ![l] = "undoing"] /\ state' = state
        /\ todo' = [todo EXCEPT ![l] = Hunks(l)]
    BY <1>5 DEF tests_fail, Goto
  <2>2. pc'[l] = "undoing" /\ state'[l] = "APPLYING" /\ todo'[l] = Hunks(l)
    BY <2>1, <1>2, <1>3 DEF Global, Shape
  <2>3. Locals(l)'
    BY <2>2, ProposalFacts DEF Locals
  <2>4. disturbed[l] = {} => Alone(l)'
    BY <2>2 DEF Alone
  <2>5. state' = IF "undoing" = "done" THEN [state EXCEPT ![l] = "ROLLED_BACK"] ELSE state
    BY <2>1
  <2> QED BY <2>1, <2>3, <2>4, <2>5, <1>1, <1>3, LocalStep
<1> QED BY <1>4, <1>5

(* The textual rollback, one hunk at a time. *)
LEMMA UndoHunkStep ==
    ASSUME NEW l \in Calls, IInv, undo_hunk(l)
    PROVE  IInv'
<1> DEFINE h == Head(todo[l])
           text == ReplaceFirst(disk[h.file], h.prop, h.orig)
<1>1. /\ pc[l] = "undoing" /\ todo[l] # <<>>
      /\ todo' = [todo EXCEPT ![l] = Tail(todo[l])]
      /\ UNCHANGED <<state, pc, snap, token, backup, buffer, rollback, issued, edits>>
  BY DEF undo_hunk, At
<1>2. Write(l, h.file, text) \/ UNCHANGED <<disk, wrote, disturbed>>
  BY DEF undo_hunk
<1>3. Global /\ Shape /\ CallType(l) /\ CallInv(l)
  BY TypeParts DEF IInv
<1>4. todo[l] \in Seq(Hunk(l))
  BY <1>1, <1>3 DEF CallInv, Locals
<1>5. h \in Hunk(l) /\ Tail(todo[l]) \in Seq(Hunk(l))
  BY <1>1, <1>4, WorkList
<1>6. h.file \in Targets(l) /\ text \in Seq(Lines)
  <2>1. h.file \in Targets(l) /\ h.orig \in Lines
    BY <1>5 DEF Hunk
  <2>2. disk[h.file] \in Seq(Lines)
    BY <2>1, <1>3, ProposalFacts DEF Global
  <2> QED BY <2>1, <2>2, ReplaceFirstType
<1>7. todo'[l] = Tail(todo[l]) /\ state[l] = "APPLYING"
  BY <1>1, <1>3 DEF Shape, CallInv, StateAgrees, Applying
<1>8. Locals(l)' /\ (disturbed[l] = {} => Alone(l)')
  BY <1>1, <1>5, <1>7 DEF Locals, Alone
<1>9. /\ pc' = [pc EXCEPT ![l] = "undoing"] /\ pc[l] \in Applying /\ "undoing" \in Applying
      /\ \A t \in issued' : IsToken(t)
      /\ state' = IF "undoing" = "done" THEN [state EXCEPT ![l] = "ROLLED_BACK"] ELSE state
      /\ snap[l] \in Texts(l)
  BY <1>1, <1>3 DEF Global, Applying, CallType
<1>10. CASE Write(l, h.file, text)
  <2> HIDE DEF h, text
  <2> QED BY <1>1, <1>6, <1>8, <1>9, <1>10, WriteStep
<1>11. CASE UNCHANGED <<disk, wrote, disturbed>>
  BY <1>1, <1>8, <1>9, <1>11, LocalStep
<1> QED BY <1>2, <1>10, <1>11

(* The textual rollback raises. *)
LEMMA UndoRaisesStep ==
    ASSUME NEW l \in Calls, IInv, undo_raises(l)
    PROVE  IInv'
<1> DEFINE f == Head(todo[l]).file
<1>1. /\ pc[l] = "undoing" /\ todo[l] # <<>>
      /\ todo' = [todo EXCEPT ![l] = <<>>] /\ pc' = [pc EXCEPT ![l] = "raised"]
      /\ UNCHANGED <<state, snap, token, backup, buffer, rollback, issued, edits>>
  BY DEF undo_raises, At, Goto
<1>2. PICK text \in {<<>>, disk[f]} : Write(l, f, text)
  BY DEF undo_raises
<1>3. Global /\ Shape /\ CallType(l) /\ CallInv(l)
  BY TypeParts DEF IInv
<1>4. f \in Targets(l)
  <2>1. todo[l] \in Seq(Hunk(l))
    BY <1>1, <1>3 DEF CallInv, Locals
  <2>2. Head(todo[l]) \in Hunk(l)
    BY <2>1, <1>1, WorkList
  <2> QED BY <2>2 DEF Hunk
<1>5. text \in Seq(Lines)
  BY <1>2, <1>3, <1>4, ProposalFacts, EmptySeq DEF Global
<1>6. pc'[l] = "raised" /\ state'[l] = "APPLYING" /\ pc[l] \in Applying
  BY <1>1, <1>3 DEF Global, CallInv, StateAgrees, Applying
<1>7. Locals(l)' /\ (disturbed[l] = {} => Alone(l)')
  BY <1>6 DEF Locals, Alone
<1> HIDE DEF f
<1> QED BY <1>1, <1>2, <1>4, <1>5, <1>6, <1>7, WriteStep

(* The end of the textual rollback. *)
LEMMA UndoneStep ==
    ASSUME NEW l \in Calls, IInv, undone(l)
    PROVE  IInv'
<1>1. /\ pc[l] = "undoing" /\ pc' = [pc EXCEPT ![l] = "done"]
      /\ rollback' = [rollback EXCEPT ![l] = "SUCCESS"]
      /\ UNCHANGED <<disk, snap, token, backup, buffer, todo, issued, edits, wrote, disturbed>>
  BY DEF undone, At, Goto
<1>2. Global /\ Shape /\ CallType(l)
  BY TypeParts DEF IInv
<1>3. state' = [state EXCEPT ![l] = "ROLLED_BACK"]
  BY FailedState DEF undone
<1>4. pc'[l] = "done" /\ state'[l] = "ROLLED_BACK"
  BY <1>1, <1>2, <1>3 DEF Global
<1>5. Locals(l)' /\ (disturbed[l] = {} => Alone(l)')
  BY <1>4 DEF Locals, Alone
<1>6. snap[l] \in Texts(l) /\ pc[l] \in Applying /\ \A t \in issued' : IsToken(t)
  BY <1>1, <1>2 DEF Global, Applying, CallType
<1> QED BY <1>1, <1>3, <1>5, <1>6, LocalStep

(* The process dies: what it wrote under a token stays written. *)
LEMMA CrashStep ==
    ASSUME NEW l \in Calls, IInv, crash(l)
    PROVE  IInv'
<1>1. /\ pc[l] \notin Ended /\ pc' = [pc EXCEPT ![l] = "dead"]
      /\ backup' = [backup EXCEPT ![l] = NoContents(l)]
      /\ buffer' = [buffer EXCEPT ![l] = NoContents(l)]
      /\ todo' = [todo EXCEPT ![l] = <<>>]
      /\ UNCHANGED <<disk, state, snap, token, rollback, issued, edits, wrote, disturbed>>
  BY DEF crash, Goto, Forget
<1>2. Global /\ Shape /\ CallType(l) /\ CallInv(l)
  BY TypeParts DEF IInv
<1>3. Global' /\ Shape'
  BY <1>1, <1>2 DEF Global, Shape, Labels, Ended
<1>4. /\ pc'[l] = "dead" /\ state'[l] # "VERIFIED_FIXED"
      /\ backup'[l] \in Texts(l) /\ buffer'[l] \in Texts(l)
  BY <1>1, <1>2, ContentsType DEF Global, Shape, Ended, CallInv, StateAgrees
<1>5. CallType(l)'
  BY <1>1, <1>2, <1>4 DEF CallType, At
<1>6. CallInv(l)'
  BY <1>1, <1>2, <1>4 DEF CallInv, StateAgrees, HoldsToken, Locals, Alone, Applying
<1>7. ASSUME NEW m \in Calls \ {l} PROVE Same(m) /\ Unseen(m)
  BY <1>1, <1>2, QuietFacts DEF Same, Global, Shape
<1> QED BY <1>3, <1>5, <1>6, <1>7, Frame

(* A developer saves a file: every call that has it among its targets is   *)
(* disturbed.                                                              *)
LEMMA EditStep ==
    ASSUME NEW f \in Files, IInv, edit(f)
    PROVE  IInv'
<1>1. PICK text \in Edits[f] \ {disk[f]} : disk' = [disk EXCEPT ![f] = text]
  BY DEF edit
<1>2. /\ edits < MaxEdits /\ edits' = edits + 1
      /\ disturbed' = [l \in Calls |-> IF f \in Targets(l) THEN disturbed[l] \cup {f}
                                       ELSE disturbed[l]]
      /\ UNCHANGED <<state, pc, localVars, issued, wrote>>
  BY DEF edit
<1>3. Global /\ Shape /\ \A l \in Calls : CallType(l) /\ CallInv(l)
  BY TypeParts DEF IInv
<1>4. text \in Seq(Lines)
  BY <1>1, RemediationAssumption
<1>5. Global'
  BY <1>1, <1>2, <1>3, <1>4, RemediationAssumption DEF Global
<1>6. Shape'
  BY <1>2, <1>3 DEF Shape, localVars
<1>7. ASSUME NEW m \in Calls PROVE Same(m) /\ Unseen(m)
  <2>1. Same(m)
    BY <1>2 DEF Same, localVars
  <2>2. disturbed[m] \subseteq Targets(m) /\ Targets(m) \subseteq Files
    BY <1>3, ProposalFacts DEF CallType
  <2>3. disturbed'[m] = IF f \in Targets(m) THEN disturbed[m] \cup {f} ELSE disturbed[m]
    BY <1>2
  <2>4. \A g \in Files : g # f => disk'[g] = disk[g]
    BY <1>1, <1>3 DEF Global
  <2>5. Unseen(m)
    BY <2>2, <2>3, <2>4 DEF Unseen
  <2> QED BY <2>1, <2>5
<1>8. ASSUME NEW m \in Calls PROVE CallType(m)' /\ CallInv(m)'
  BY <1>3, <1>7, OthersKeep
<1>9. TypeOK'
  BY <1>5, <1>8 DEF TypeOK, Global, CallType
<1> QED BY <1>6, <1>8, <1>9 DEF IInv

-----------------------------------------------------------------------------
(* The theorems. *)

LEMMA InitInvariant == Init => IInv
<1> SUFFICES ASSUME Init PROVE IInv
  OBVIOUS
<1>1. Global
  BY RemediationAssumption DEF Init, Global, Labels, States, VALID_TRANSITIONS
<1>2. Shape
  BY DEF Init, Shape
<1>3. ASSUME NEW l \in Calls PROVE CallType(l) /\ CallInv(l)
  <2>1. /\ pc[l] = "start" /\ state[l] = "DETECTED" /\ wrote[l] = {} /\ disturbed[l] = {}
        /\ snap[l] = NoContents(l) /\ backup[l] = NoContents(l) /\ buffer[l] = NoContents(l)
        /\ token[l] = NoToken /\ rollback[l] = "NOT_NEEDED"
    BY DEF Init
  <2>2. NoContents(l) \in Texts(l)
    BY <1>1, ContentsType DEF Global
  <2>3. CallType(l)
    BY <2>1, <2>2 DEF CallType, IsToken, At
  <2> QED BY <2>1, <2>3 DEF CallInv, StateAgrees, HoldsToken, Locals, Alone, Applying
<1> QED BY <1>1, <1>2, <1>3, TypeParts DEF IInv

(* The invariant is inductive. *)
LEMMA NextInvariant == IInv /\ [Next]_vars => IInv'
<1> SUFFICES ASSUME IInv, [Next]_vars PROVE IInv'
  OBVIOUS
<1>1. CASE UNCHANGED vars
  <2>1. Global' /\ Shape'
    BY <1>1, TypeParts DEF IInv, Global, Shape, vars, localVars
  <2>2. ASSUME NEW m \in Calls PROVE CallType(m)' /\ CallInv(m)'
    <3>1. Same(m) /\ Unseen(m)
      BY <1>1, QuietFacts DEF Same, vars, localVars
    <3> QED BY <3>1, OthersKeep, TypeParts DEF IInv
  <2>3. TypeOK'
    BY <2>1, <2>2 DEF TypeOK, Global, CallType
  <2> QED BY <2>1, <2>2, <2>3 DEF IInv
<1>2. ASSUME NEW l \in Calls, execute(l) PROVE IInv'
  <2>1. CASE plan_and_propose(l) \/ proposing_raises(l)
    BY <2>1, ProposeStep
  <2>2. CASE approve(l)
    BY <2>2, ApproveStep
  <2>3. CASE preflight(l)
    BY <2>3, PreflightStep
  <2>4. CASE read_targets(l)
    BY <2>4, ReadStep
  <2>5. CASE write_file(l)
    BY <2>5, WriteFileStep
  <2>6. CASE write_fails(l)
    BY <2>6, WriteFailsStep
  <2>7. CASE restore_file(l) \/ restore_fails(l)
    BY <2>7, RestoreStep
  <2>16. CASE capture_fails(l)
    BY <2>16, CaptureFailsStep
  <2>8. CASE restored(l)
    BY <2>8, RestoredStep
  <2>9. CASE applied(l)
    BY <2>9, AppliedStep
  <2>10. CASE rescan(l)
    BY <2>10, RescanStep
  <2>11. CASE rescan_raises(l)
    BY <2>11, RescanRaisesStep
  <2>12. CASE tests_pass(l) \/ tests_fail(l)
    BY <2>12, TestsStep
  <2>13. CASE undo_hunk(l)
    BY <2>13, UndoHunkStep
  <2>14. CASE undo_raises(l)
    BY <2>14, UndoRaisesStep
  <2>15. CASE undone(l)
    BY <2>15, UndoneStep
  <2> QED BY <1>2, <2>1, <2>2, <2>3, <2>4, <2>5, <2>6, <2>7, <2>8, <2>9, <2>10, <2>11,
             <2>12, <2>13, <2>14, <2>15, <2>16 DEF execute, execute_transaction, apply
<1> QED BY <1>1, <1>2, CrashStep, EditStep DEF Next

(* Every reachable state of the lifecycle satisfies the inductive          *)
(* invariant, for any set of calls, files, proposals and edits.            *)
THEOREM InvariantHolds == Spec => []IInv
<1>1. IInv /\ [Next]_vars => IInv'
  BY NextInvariant
<1> QED BY <1>1, InitInvariant, PTL DEF Spec

(* The files stay texts, tokens stay tokens, and a call that is done is    *)
(* rejected, rolled back or verified.                                      *)
THEOREM TypeCorrect == Spec => []TypeOK
<1>1. IInv => TypeOK
  BY DEF IInv
<1> QED BY <1>1, InvariantHolds, PTL

(* LifecycleEngine.execute writes no file without a token that approves    *)
(* this proposal for the texts the reviewer of the call saw; whether the   *)
(* token has been used before is not asked.                                *)
THEOREM WritesApproved == Spec => []WritesAreApproved
<1>1. IInv => WritesAreApproved
  BY DEF IInv, CallInv, HoldsToken, WritesAreApproved
<1> QED BY <1>1, InvariantHolds, PTL

(* What the applier reports applied is the approved patch of the approved  *)
(* texts, unless somebody else has written one of the targets since the    *)
(* preflight.                                                              *)
THEOREM PatchIsApproved == Spec => []ApprovedPatch
<1>1. IInv => ApprovedPatch
  BY DEF IInv, CallInv, Alone, ApprovedPatch
<1> QED BY <1>1, InvariantHolds, PTL

(* _rollback_transaction, called by apply, that reports SUCCESS has brought *)
(* every target back to what the reviewer was shown: to the disk before    *)
(* the first write, as long as nobody else touches it.                     *)
THEOREM RollbackExact == Spec => []RollbackIsByteExact
<1>1. ASSUME IInv, NEW l \in Calls, At(l, "restoring"), todo[l] = <<>>,
             rollback[l] = "SUCCESS", disturbed[l] = {}
      PROVE  Contents(l) = snap[l]
  <2>1. /\ backup[l] \in [Targets(l) -> Seq(Lines)]
        /\ \A f \in Targets(l) \ Left(l) : disk[f] = backup[l][f]
        /\ backup[l] = token[l].snapshot /\ token[l].snapshot = snap[l]
    BY <1>1 DEF IInv, CallInv, HoldsToken, Applying, Locals, Alone, At
  <2>2. Left(l) = {}
    BY <1>1 DEF Left
  <2>3. Contents(l) = backup[l]
    BY <2>1, <2>2 DEF Contents
  <2> QED BY <2>1, <2>3
<1>2. IInv => RollbackIsByteExact
  BY <1>1 DEF RollbackIsByteExact
<1> QED BY <1>2, InvariantHolds, PTL

(* Every VULNERABLE report that is about the finding is a semantic match   *)
(* of PostApplyVerificationEngine.verify, so when there is none, and       *)
(* nobody else has touched the file, VERIFIED_FIXED is what a scan says.   *)
THEOREM VerifiedFixed == Spec => []VerifiedMeansFixed
<1>1. ASSUME IInv, NEW l \in Rescanned, Matches(l) = {} PROVE StillReported(l) = {}
  <2> SUFFICES ASSUME NEW i \in 1 .. Len(disk[Finding[l].file]),
                      NEW r \in Reports[disk[Finding[l].file][i]],
                      r.verdict = "VULNERABLE",
                      r.rule = Finding[l].rule \/ (r.cwe = Finding[l].cwe /\ r.cwe # Unknown),
                      Finding[l].category \in {Unknown, r.category}
               PROVE  SemanticMatch(r, Finding[l])
    BY <1>1 DEF StillReported, Matches
  <2>1. CategoryOf(r) = r.category
    BY RemediationAssumption DEF CategoryOf
  <2> QED BY <2>1 DEF SemanticMatch
<1>2. ASSUME IInv PROVE VerifiedMeansFixed
  <2> SUFFICES ASSUME NEW l \in Rescanned, state[l] = "VERIFIED_FIXED", disturbed[l] = {},
                      Finding[l].file \in Targets(l)
               PROVE  StillReported(l) = {}
    BY DEF VerifiedMeansFixed
  <2>1. Matches(l) = {}
    BY <1>2, RemediationAssumption DEF IInv, CallInv, Alone
  <2> QED BY <1>1, <1>2, <2>1
<1> QED BY <1>2, InvariantHolds, PTL

=============================================================================
