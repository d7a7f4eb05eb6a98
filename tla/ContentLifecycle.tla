-------------------------- MODULE ContentLifecycle --------------------------
(***************************************************************************)
(* The working copy of content-packages/ and the commands that change it:  *)
(* an author edits drafts, operators run content/lifecycle.py (review and  *)
(* publish) and approve_review.py, and build_dataset.py writes the manifest *)
(* a reviewer is to approve.                                               *)
(*                                                                         *)
(* A package stands for one (id, version) with one lesson; its bytes are   *)
(* known by their review_status, the prerequisites they name and how they  *)
(* are laid out.  Two digests are taken of them: the release ledger has    *)
(* that of the bytes, the manifest that of the JSON parsed from them.      *)
(* The ledger is one JSON file that each command reads, extends and writes *)
(* anew: write_text truncates first.                                       *)
(***************************************************************************)
EXTENDS Naturals, Sequences, FiniteSets, FiniteSetsExt

CONSTANTS
    Package,     \* content packages, each in its folder
    Layout,      \* ways to write the same JSON: white space, order of keys
    Versions,    \* Versions[p]: the texts an author gives p's package.json
    Operator,    \* terminals in which commands run
    MaxEntries,  \* bound: entries of the release ledger
    Torn         \* a ledger that was truncated and not yet written

VARIABLES
    file,        \* file[p]: package.json
    ledger,      \* releases.json
    manifest,    \* review-manifest.json: its status and the digests it lists
    op,          \* op[o]: the command at terminal o
    overlapped   \* a command met another command, an edit or a new manifest

contentVars == <<file, ledger, manifest, op, overlapped>>

Content == [status : {"draft", "reviewed"}, needs : SUBSET Package]

Text == [status : {"draft", "reviewed"}, needs : SUBSET Package, layout : Layout]

\* What json.loads makes of a text; digest is taken of that, written anew.
Parsed(text) == [status |-> text.status, needs |-> text.needs]

Contents(f) == [p \in Package |-> Parsed(f[p])]

ASSUME PackageAssumption == IsFiniteSet(Package) /\ Package # {}

ASSUME VersionsAssumption == Versions \in [Package -> SUBSET Text \ {{}}]

Files == {f \in [Package -> Text] : \A p \in Package : f[p] \in Versions[p]}

Entry == [action : {"review", "publish"}, package : Package, text : Text]

Manifest == [status : {"pending", "approved"}, content : [Package -> Content]]

ASSUME BoundAssumption == MaxEntries \in Nat

ASSUME TornAssumption == Torn \notin Manifest \union [Package -> Content]

Idle == [pc |-> "idle"]

\* A command: appends to make, the ledger it read with its entry added, and
\* the manifest an approval holds in memory.
Running ==
    [pc : {"append", "write", "close", "sign"}, action : {"review", "publish"},
     todo : Seq(Package), entries : Seq(Entry),
     approves : [Package -> Content] \union {Torn}]

Command == {Idle} \union Running

ContentTypeOK ==
    /\ file \in Files
    /\ ledger # Torn => ledger \in Seq(Entry) /\ Len(ledger) <= MaxEntries
    /\ manifest # Torn => manifest \in Manifest
    /\ op \in [Operator -> Command]
    /\ overlapped \in BOOLEAN

ContentInit ==
    /\ file \in Files
    /\ ledger = <<>>
    /\ manifest = [status |-> "pending", content |-> Contents(file)]
    /\ op = [o \in Operator |-> Idle]
    /\ overlapped = FALSE

-----------------------------------------------------------------------------
(* What the files say. *)

\* _recorded_review: the ledger approves exactly these bytes.
Recorded(entries, p, text) ==
    \E i \in DOMAIN entries :
        entries[i] = [action |-> "review", package |-> p, text |-> text]

\* Packages that say so themselves, and drafts with a recorded review.
Reviewed(entries, f) ==
    {p \in Package : f[p].status = "reviewed" \/ Recorded(entries, p, f[p])}

Walk == [visiting : SUBSET Package, visited : SUBSET Package, cycle : BOOLEAN]

\* Seeded fault: a package counts as visited as soon as it is entered.
VisitEager(f, p, walk) ==
    LET visit[k \in Package \X Walk] ==
          LET q == k[1]  w == k[2] IN
          IF q \in w.visited THEN w
          ELSE FoldSet(LAMBDA r, x : visit[<<r, x>>],
                       [w EXCEPT !.visited = @ \union {q}], f[q].needs)
    IN  visit[<<p, walk>>]

\* visit, the depth-first search of validate along prerequisites.
Visit(f, p, walk) ==
    LET visit[k \in Package \X Walk] ==
          LET q == k[1]  w == k[2] IN
          IF q \in w.visiting THEN [w EXCEPT !.cycle = TRUE]
          ELSE IF q \in w.visited THEN w
          ELSE LET after == FoldSet(LAMBDA r, x : visit[<<r, x>>],
                                    [w EXCEPT !.visiting = @ \union {q}], f[q].needs) IN
               [after EXCEPT !.visiting = @ \ {q}, !.visited = @ \union {q}]
    IN  visit[<<p, walk>>]

Cyclic(f) ==
    FoldSet(LAMBDA p, w : Visit(f, p, w), [visiting |-> {}, visited |-> {}, cycle |-> FALSE],
            Package).cycle

\* validate finds nothing to report.  (With a reviewed package that depends on
\* a draft it raises instead: lifecycle.py:122 uses a variable not yet set.)
Clean(entries, f) ==
    /\ \A p \in Reviewed(entries, f) : f[p].needs \subseteq Reviewed(entries, f)
    /\ ~Cyclic(f)

Busy == \E o \in Operator : op[o] # Idle

\* _review_approved: provider runs over the data set are let through.
ReviewApproved == manifest = [status |-> "approved", content |-> Contents(file)]

-----------------------------------------------------------------------------
(* Commands. *)

Begin(o, action, packages, approves) ==
    /\ op[o] = Idle
    /\ op' = [op EXCEPT ![o] = [pc |-> "append", action |-> action, todo |-> packages,
                                entries |-> <<>>, approves |-> approves]]
    /\ overlapped' = (overlapped \/ Busy)
    /\ UNCHANGED <<file, ledger, manifest>>

\* lifecycle.py review and publish: validate the whole tree first.
StartCommand(o, action, p) ==
    /\ ledger # Torn
    /\ Clean(ledger, file)
    /\ Begin(o, action, <<p>>, Torn)

\* approve_review.py: the pending manifest must be of the files as they are;
\* the packages follow in the order of their paths.
StartApproval(o, order) ==
    /\ manifest = [status |-> "pending", content |-> Contents(file)]
    /\ {order[i] : i \in DOMAIN order} = Package
    /\ Begin(o, "review", order, Contents(file))

\* Seeded fault: any review of the package will do.
AppendableAnyDigest(entries, action, p) ==
    action = "publish" => \E text \in Versions[p] : Recorded(entries, p, text)

Appendable(entries, action, p) ==
    action = "publish" => Recorded(entries, p, file[p])

\* append_release reads the ledger and the package, and adds its entry.
ReadLedger(o) ==
    LET p == Head(op[o].todo)
        entry == [action |-> op[o].action, package |-> p, text |-> file[p]] IN
    /\ op[o].pc = "append"
    /\ ledger # Torn
    /\ Appendable(ledger, op[o].action, p)
    /\ Len(ledger) < MaxEntries
    /\ op' = [op EXCEPT ![o].pc = "write", ![o].entries = Append(ledger, entry)]
    /\ UNCHANGED <<file, ledger, manifest, overlapped>>

\* append_release raises ValueError: no JSON to read, or bytes nobody reviewed.
RefuseAppend(o) ==
    /\ op[o].pc = "append"
    /\ ledger # Torn => ~Appendable(ledger, op[o].action, Head(op[o].todo))
    /\ op' = [op EXCEPT ![o] = Idle]
    /\ UNCHANGED <<file, ledger, manifest, overlapped>>

OpenLedger(o) ==
    /\ op[o].pc = "write"
    /\ ledger' = Torn
    /\ op' = [op EXCEPT ![o].pc = "close"]
    /\ UNCHANGED <<file, manifest, overlapped>>

\* Seeded fault: the manifest is signed when the first package is recorded.
AfterEntrySigning(c) ==
    IF c.approves # Torn THEN [c EXCEPT !.pc = "sign", !.todo = Tail(@)] ELSE Idle

\* Seeded fault: lifecycle.py signs the manifest too.
AfterEntryAlways(c) ==
    IF Len(c.todo) > 1 THEN [c EXCEPT !.pc = "append", !.todo = Tail(@)]
    ELSE [c EXCEPT !.pc = "sign", !.todo = <<>>]

\* What follows an entry: the next package, the manifest, or nothing.
AfterEntry(c) ==
    IF Len(c.todo) > 1 THEN [c EXCEPT !.pc = "append", !.todo = Tail(@)]
    ELSE IF c.approves # Torn THEN [c EXCEPT !.pc = "sign", !.todo = <<>>] ELSE Idle

\* Over a text that was written since this command truncated the file the end
\* of the older text may stay: no JSON then.
CloseLedger(o) ==
    /\ op[o].pc = "close"
    /\ ledger' \in IF ledger = Torn THEN {op[o].entries} ELSE {op[o].entries, Torn}
    /\ op' = [op EXCEPT ![o] = AfterEntry(op[o])]
    /\ UNCHANGED <<file, manifest, overlapped>>

SignManifest(o) ==
    /\ op[o].pc = "sign"
    /\ manifest' = [status |-> "approved", content |-> op[o].approves]
    /\ op' = [op EXCEPT ![o] = Idle]
    /\ UNCHANGED <<file, ledger, overlapped>>

\* The terminal is closed or the machine stops, maybe with the manifest
\* truncated.
Die(o) ==
    /\ op[o] # Idle
    /\ op' = [op EXCEPT ![o] = Idle]
    /\ manifest' \in {manifest} \union (IF op[o].pc = "sign" THEN {Torn} ELSE {})
    /\ UNCHANGED <<file, ledger, overlapped>>

-----------------------------------------------------------------------------
(* Authors. *)

\* Someone writes a package anew.
Edit(p, text) ==
    /\ text # file[p]
    /\ file' = [file EXCEPT ![p] = text]
    /\ overlapped' = (overlapped \/ Busy)
    /\ UNCHANGED <<ledger, manifest, op>>

\* build_dataset.py.
BuildManifest ==
    /\ manifest' = [status |-> "pending", content |-> Contents(file)]
    /\ overlapped' = (overlapped \/ Busy)
    /\ UNCHANGED <<file, ledger, op>>

Operate(o) ==
    \/ \E p \in Package, action \in {"review", "publish"} : StartCommand(o, action, p)
    \/ \E order \in [1..Cardinality(Package) -> Package] : StartApproval(o, order)
    \/ ReadLedger(o) \/ RefuseAppend(o) \/ OpenLedger(o) \/ CloseLedger(o)
    \/ SignManifest(o) \/ Die(o)

ContentNext ==
    \/ \E o \in Operator : Operate(o)
    \/ \E p \in Package : \E text \in Versions[p] : Edit(p, text)
    \/ BuildManifest

ContentSpec == ContentInit /\ [][ContentNext]_contentVars

-----------------------------------------------------------------------------
\* Whatever entries commands lose to each other, the ledger never publishes
\* bytes for which it holds no earlier review (append_release's test is made on
\* the copy that is written back).
PublishedWasReviewed ==
    ledger # Torn =>
        \A i \in DOMAIN ledger : ledger[i].action = "publish" =>
            \E k \in 1..(i-1) : ledger[k] = [ledger[i] EXCEPT !.action = "review"]

\* A review of p whose bytes say what content says.
RecordedContent(entries, p, content) ==
    \E i \in DOMAIN entries : /\ entries[i].action = "review" /\ entries[i].package = p
                              /\ Parsed(entries[i].text) = content

\* A data set passes for approved only when the ledger records, for every
\* package it covers, the review of bytes that say the same, also after an
\* approval that died half-way; commands that overlap may lose an entry.  Of
\* the very bytes it need not: a package written anew with another layout keeps
\* its approval, and loses its recorded review.
ApprovalIsInLedger ==
    ~overlapped /\ ledger # Torn /\ ReviewApproved =>
        \A p \in Package : RecordedContent(ledger, p, Parsed(file[p]))

\* The packages GET /profile recommends to go on with, of those a catalog serves.
Recommended(served, f, mastered) == {p \in served \ mastered : f[p].needs \subseteq mastered}

\* A release is cut from a tree that validate passes: whatever a learner has
\* mastered of the packages its catalog serves, the profile knows a next one,
\* until all are mastered.
LearnerIsNeverStuck ==
    ledger # Torn /\ Clean(ledger, file) =>
        LET served == Reviewed(ledger, file) IN
        \A mastered \in SUBSET served :
            mastered # served => Recommended(served, file, mastered) # {}

=============================================================================
