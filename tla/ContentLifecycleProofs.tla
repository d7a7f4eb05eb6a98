----------------------- MODULE ContentLifecycleProofs -----------------------
(***************************************************************************)
(* Theorems about ContentLifecycle for any packages, texts, operators and  *)
(* length of the ledger: what is published was reviewed, an approved data  *)
(* set has its reviews in the ledger, and a tree that validate passes      *)
(* leaves no learner without a next package.  The last rests on what the   *)
(* search for cycles finds, which the second half proves from visit.       *)
(***************************************************************************)
EXTENDS ContentLifecycle, FiniteSetTheorems, SequenceTheorems,
        WellFoundedInduction, TLAPS

-----------------------------------------------------------------------------
(* The inductive invariant. *)

\* A command with an entry to make knows the package, one about to sign has no
\* other and knows what it signs, and what is written back is no longer than the bound.
CommandOK(c) ==
    /\ c.pc = "sign" => c.approves # Torn /\ c.todo = <<>>
    /\ c.pc # "sign" => c.todo # <<>>
    /\ Len(c.entries) <= MaxEntries

Commands == \A o \in Operator : op[o] # Idle => CommandOK(op[o])

TypeInv == ContentTypeOK /\ Commands

\* Each publication has its review before it.
WellPublished(entries) ==
    \A i \in DOMAIN entries : entries[i].action = "publish" =>
        \E k \in 1..(i-1) : entries[k] = [entries[i] EXCEPT !.action = "review"]

Publications ==
    /\ ledger # Torn => WellPublished(ledger)
    /\ \A o \in Operator : op[o] # Idle => WellPublished(op[o].entries)

Approvable == [Package -> Content]

\* What content says of every package but those in rest is recorded.
Covers(entries, content, rest) ==
    \A p \in Package \ rest : RecordedContent(entries, p, content[p])

Listed(seq) == {seq[i] : i \in DOMAIN seq}

\* Without overlap there is one command, it approves the files as they are, and
\* its entries so far are in the ledger or about to be.
Alone ==
    /\ \A o1, o2 \in Operator : op[o1] # Idle /\ op[o2] # Idle => o1 = o2
    /\ \A o \in Operator : op[o] # Idle /\ op[o].approves # Torn =>
        /\ op[o].action = "review"
        /\ op[o].pc # "sign" => op[o].approves = Contents(file)
        /\ op[o].pc \in {"append", "sign"} /\ ledger # Torn =>
               Covers(ledger, op[o].approves, Listed(op[o].todo))
        /\ op[o].pc \in {"write", "close"} =>
               Covers(op[o].entries, op[o].approves, Listed(Tail(op[o].todo)))

\* An approved manifest is covered by the ledger and by what will replace it.
Covered ==
    manifest # Torn /\ manifest.status = "approved" =>
        /\ ledger # Torn => Covers(ledger, manifest.content, {})
        /\ \A o \in Operator : op[o] # Idle /\ op[o].pc \in {"write", "close"} =>
               Covers(op[o].entries, manifest.content, {})

Undisturbed == ~overlapped => Alone /\ Covered

ContentInv == TypeInv /\ Publications /\ Undisturbed

-----------------------------------------------------------------------------
(* Lemmas about entries and lists of packages. *)

USE PackageAssumption, VersionsAssumption, BoundAssumption, TornAssumption

LEMMA RecordedStays ==
  ASSUME NEW entries \in Seq(Entry), NEW e \in Entry, NEW p, NEW content,
         RecordedContent(entries, p, content)
  PROVE  RecordedContent(Append(entries, e), p, content)
  BY DEF RecordedContent

LEMMA ReviewIsRecorded ==
  ASSUME NEW entries \in Seq(Entry), NEW p, NEW text
  PROVE  RecordedContent(Append(entries, [action |-> "review", package |-> p, text |-> text]),
                         p, Parsed(text))
<1>. DEFINE e == [action |-> "review", package |-> p, text |-> text]
<1>1. /\ Append(entries, e)[Len(entries) + 1] = e
      /\ Len(entries) + 1 \in DOMAIN Append(entries, e)
  OBVIOUS
<1>2. e.action = "review" /\ e.package = p /\ e.text = text
  OBVIOUS
<1>. HIDE DEF e
<1>3. RecordedContent(Append(entries, e), p, Parsed(text))
  BY <1>1, <1>2 DEF RecordedContent
<1>. QED  BY <1>3 DEF e

LEMMA CoversStays ==
  ASSUME NEW entries \in Seq(Entry), NEW e \in Entry, NEW f, NEW rest, Covers(entries, f, rest)
  PROVE  Covers(Append(entries, e), f, rest)
  BY RecordedStays DEF Covers

LEMMA ListedTail ==
  ASSUME NEW seq \in Seq(Package), seq # <<>>
  PROVE  Listed(seq) \subseteq {Head(seq)} \union Listed(Tail(seq))
<1>1. SUFFICES ASSUME NEW i \in 1..Len(seq)
               PROVE  seq[i] = Head(seq) \/ seq[i] \in Listed(Tail(seq))
  BY DOMAIN seq = 1..Len(seq) DEF Listed
<1>2. CASE i = 1
  BY <1>2
<1>3. CASE i # 1
  <2>1. i - 1 \in DOMAIN Tail(seq) /\ seq[i] = Tail(seq)[i - 1]
    BY <1>3
  <2>. QED  BY <2>1 DEF Listed
<1>. QED  BY <1>2, <1>3

LEMMA LongTail ==
  ASSUME NEW seq \in Seq(Package), Len(seq) > 1
  PROVE  Tail(seq) \in Seq(Package) /\ Tail(seq) # <<>>
<1>1. seq # <<>> /\ Len(seq) \in Nat
  OBVIOUS
<1>2. Tail(seq) \in Seq(Package) /\ Len(Tail(seq)) = Len(seq) - 1
  BY <1>1, HeadTailProperties
<1>3. \A m, n \in Nat : m > 1 /\ n = m - 1 => n # 0
  OBVIOUS
<1>4. Len(Tail(seq)) \in Nat
  BY <1>2, LenProperties
<1>5. Len(<<>>) = 0
  OBVIOUS
<1>. QED  BY <1>1, <1>2, <1>3, <1>4, <1>5, Zenon

LEMMA SoleTail ==
  ASSUME NEW seq \in Seq(Package), seq # <<>>, Len(seq) <= 1
  PROVE  Listed(Tail(seq)) = {}
<1>1. Len(seq) = 1
  <2>1. Len(seq) \in Nat \ {0}
    BY EmptySeq, Zenon
  <2>2. \A n \in Nat \ {0} : n <= 1 => n = 1
    OBVIOUS
  <2>. QED  BY <2>1, <2>2, Zenon
<1>2. Tail(seq) \in Seq(Package) /\ Len(Tail(seq)) = Len(seq) - 1
  BY HeadTailProperties
<1>3. DOMAIN Tail(seq) = 1..(1 - 1)
  BY <1>1, <1>2, LenProperties, Zenon
<1>4. 1..(1 - 1) = {}
  OBVIOUS
<1>. QED  BY <1>3, <1>4 DEF Listed

\* The review of the next package covers one more.
LEMMA CoversNext ==
  ASSUME NEW entries \in Seq(Entry), NEW f \in Files, NEW todo \in Seq(Package), todo # <<>>,
         Covers(entries, Contents(f), Listed(todo))
  PROVE  Covers(Append(entries, [action |-> "review", package |-> Head(todo), text |-> f[Head(todo)]]),
                Contents(f), Listed(Tail(todo)))
<1>. DEFINE e == [action |-> "review", package |-> Head(todo), text |-> f[Head(todo)]]
<1>1. e \in Entry
  BY DEF Entry, Files
<1>2. SUFFICES ASSUME NEW p \in Package \ Listed(Tail(todo))
               PROVE  RecordedContent(Append(entries, e), p, Parsed(f[p]))
  BY DEF Covers, Contents
<1>3. CASE p = Head(todo)
  BY <1>3, ReviewIsRecorded
<1>4. CASE p # Head(todo)
  <2>1. p \notin Listed(todo)
    BY <1>2, <1>4, ListedTail
  <2>2. RecordedContent(entries, p, Parsed(f[p]))
    BY <2>1 DEF Covers, Contents
  <2>. QED  BY <1>1, <2>2, RecordedStays
<1>. QED  BY <1>3, <1>4

LEMMA WellPublishedNext ==
  ASSUME NEW entries \in Seq(Entry), NEW action \in {"review", "publish"}, NEW p \in Package,
         NEW text \in Text, WellPublished(entries),
         action = "publish" => Recorded(entries, p, text)
  PROVE  WellPublished(Append(entries, [action |-> action, package |-> p, text |-> text]))
<1>. DEFINE e == [action |-> action, package |-> p, text |-> text]
            after == Append(entries, e)
<1>0. e \in Entry
  BY DEF Entry
<1>1. after \in Seq(Entry) /\ Len(after) = Len(entries) + 1 /\ after[Len(entries) + 1] = e
      /\ \A i \in 1..Len(entries) : after[i] = entries[i]
  BY <1>0
<1>. HIDE DEF after
<1>2. SUFFICES ASSUME NEW i \in 1..Len(after), after[i].action = "publish"
               PROVE  \E k \in 1..(i-1) : after[k] = [after[i] EXCEPT !.action = "review"]
  <2>1. DOMAIN after = 1..Len(after)
    BY <1>1
  <2>. QED  BY <2>1 DEF WellPublished, after
<1>3. CASE i <= Len(entries)
  <2>1. i \in DOMAIN entries /\ after[i] = entries[i]
    BY <1>1, <1>3
  <2>2. PICK k \in 1..(i-1) : entries[k] = [entries[i] EXCEPT !.action = "review"]
    BY <1>2, <2>1 DEF WellPublished
  <2>. QED  BY <1>1, <1>3, <2>1, <2>2
<1>4. CASE i = Len(entries) + 1
  <2>1. after[i] = e /\ action = "publish"
    BY <1>1, <1>2, <1>4
  <2>2. PICK k \in DOMAIN entries : entries[k] = [action |-> "review", package |-> p, text |-> text]
    BY <2>1 DEF Recorded
  <2>3. [after[i] EXCEPT !.action = "review"] = [action |-> "review", package |-> p, text |-> text]
    BY <2>1
  <2>. QED  BY <1>1, <1>4, <2>2, <2>3
<1>5. i <= Len(entries) \/ i = Len(entries) + 1
  BY <1>1
<1>. QED  BY <1>3, <1>4, <1>5

LEMMA OrderIsList ==
  ASSUME NEW order \in [1..Cardinality(Package) -> Package], {order[i] : i \in DOMAIN order} = Package
  PROVE  order \in Seq(Package) /\ order # <<>> /\ Listed(order) = Package
<1>1. Cardinality(Package) \in Nat
  BY FS_CardinalityType
<1>. QED  BY <1>1 DEF Listed

-----------------------------------------------------------------------------
(* Types. *)

\* What follows an entry is a command as it should be.
LEMMA FollowsWell ==
  ASSUME NEW c \in Running, CommandOK(c), c.pc = "close"
  PROVE  /\ AfterEntry(c) \in Command
         /\ AfterEntry(c) # Idle =>
               /\ CommandOK(AfterEntry(c)) /\ AfterEntry(c).entries = c.entries
               /\ AfterEntry(c).action = c.action /\ AfterEntry(c).approves = c.approves
               /\ AfterEntry(c).pc \in {"append", "sign"}
               /\ Listed(AfterEntry(c).todo) = Listed(Tail(c.todo))
<1>1. c.todo \in Seq(Package) /\ c.todo # <<>> /\ c.entries \in Seq(Entry)
  BY DEF Running, CommandOK
<1>2. CASE Len(c.todo) > 1
  <2>1. AfterEntry(c) = [c EXCEPT !.pc = "append", !.todo = Tail(@)]
    BY <1>2 DEF AfterEntry
  <2>2. Tail(c.todo) \in Seq(Package) /\ Tail(c.todo) # <<>>
    BY <1>1, <1>2, LongTail
  <2>. QED  BY <2>1, <2>2 DEF CommandOK, Command, Running
<1>3. CASE Len(c.todo) <= 1
  <2>1. AfterEntry(c) = IF c.approves # Torn THEN [c EXCEPT !.pc = "sign", !.todo = <<>>] ELSE Idle
    BY <1>1, <1>3 DEF AfterEntry
  <2>2. Listed(<<>>) = {}
    BY DEF Listed
  <2>3. CASE c.approves # Torn
    <3>1. AfterEntry(c) = [c EXCEPT !.pc = "sign", !.todo = <<>>]
      BY <2>1, <2>3
    <3>2. <<>> \in Seq(Package) /\ <<>> # c.todo
      BY <1>1
    <3>3. AfterEntry(c) \in Running
      BY <3>1, <3>2 DEF Running
    <3>4. CommandOK(AfterEntry(c))
      BY <2>3, <3>1 DEF CommandOK, Running
    <3>5. Listed(AfterEntry(c).todo) = {} /\ Listed(Tail(c.todo)) = {}
      BY <1>1, <1>3, <2>2, <3>1, SoleTail DEF Running
    <3>. QED  BY <3>1, <3>3, <3>4, <3>5 DEF Command, Running
  <2>4. CASE c.approves = Torn
    BY <2>1, <2>4 DEF Command
  <2>. QED  BY <2>3, <2>4
<1>. QED  BY <1>1, <1>2, <1>3

LEMMA ContentsType ==
  ASSUME NEW f \in Files
  PROVE  Contents(f) \in Approvable
<1>1. \A p \in Package : Parsed(f[p]) \in Content
  BY DEF Files, Text, Content, Parsed
<1>. QED  BY <1>1 DEF Contents, Approvable

LEMMA TypeInit == ContentInit => TypeInv
<1>. SUFFICES ASSUME ContentInit
              PROVE  TypeInv
  OBVIOUS
<1>1. [status |-> "pending", content |-> Contents(file)] \in Manifest
  BY ContentsType DEF ContentInit, Manifest, Approvable
<1>2. <<>> \in Seq(Entry) /\ Len(<<>>) <= MaxEntries
  OBVIOUS
<1>. QED  BY <1>1, <1>2 DEF ContentInit, TypeInv, ContentTypeOK, Commands, Command

\* The steps that begin a command.
LEMMA BeginTypes ==
  ASSUME TypeInv, NEW o \in Operator, NEW action \in {"review", "publish"},
         NEW todo \in Seq(Package), todo # <<>>, NEW approves \in Approvable \union {Torn},
         Begin(o, action, todo, approves)
  PROVE  TypeInv'
<1>. DEFINE c == [pc |-> "append", action |-> action, todo |-> todo, entries |-> <<>>,
                  approves |-> approves]
<1>1. c \in Command /\ CommandOK(c)
  BY DEF Command, Running, CommandOK, Approvable
<1>2. op' = [op EXCEPT ![o] = c]
  BY DEF Begin
<1>. HIDE DEF c
<1>3. ContentTypeOK'
  BY <1>1, <1>2 DEF Begin, TypeInv, ContentTypeOK, Busy
<1>4. Commands'
  BY <1>1, <1>2 DEF TypeInv, ContentTypeOK, Commands
<1>. QED  BY <1>3, <1>4 DEF TypeInv

\* Steps of a command that goes on as c.
LEMMA GoesOnTypes ==
  ASSUME TypeInv, NEW o \in Operator, NEW c \in Command, c # Idle => CommandOK(c),
         op' = [op EXCEPT ![o] = c]
  PROVE  op' \in [Operator -> Command] /\ Commands'
  BY DEF TypeInv, ContentTypeOK, Commands

LEMMA TypeStep == TypeInv /\ [ContentNext]_contentVars => TypeInv'
<1>. SUFFICES ASSUME TypeInv, [ContentNext]_contentVars
              PROVE  TypeInv'
  OBVIOUS
<1>. USE DEF TypeInv
<1>run. ASSUME NEW o \in Operator, op[o] # Idle
        PROVE  op[o] \in Running /\ CommandOK(op[o])
  BY <1>run DEF ContentTypeOK, Command, Commands
<1>idle. ASSUME NEW o \in Operator, NEW pc \in {"append", "write", "close", "sign"}, op[o].pc = pc
         PROVE  op[o] # Idle
  BY <1>idle DEF Idle
<1>1. ASSUME NEW o \in Operator, NEW p \in Package, NEW action \in {"review", "publish"},
             StartCommand(o, action, p)
      PROVE  TypeInv'
  <2>1. <<p>> \in Seq(Package) /\ <<p>> # <<>>
    OBVIOUS
  <2>. QED  BY <1>1, <2>1, BeginTypes DEF StartCommand
<1>2. ASSUME NEW o \in Operator, NEW order \in [1..Cardinality(Package) -> Package],
             StartApproval(o, order)
      PROVE  TypeInv'
  <2>1. order \in Seq(Package) /\ order # <<>>
    BY <1>2, OrderIsList DEF StartApproval
  <2>2. Contents(file) \in Approvable
    BY ContentsType DEF ContentTypeOK
  <2>. QED  BY <1>2, <2>1, <2>2, BeginTypes DEF StartApproval
<1>3. ASSUME NEW o \in Operator, ReadLedger(o)
      PROVE  TypeInv'
  <2>. DEFINE e == [action |-> op[o].action, package |-> Head(op[o].todo),
                    text |-> file[Head(op[o].todo)]]
              c == [op[o] EXCEPT !.pc = "write", !.entries = Append(ledger, e)]
  <2>1. op[o] \in Running /\ CommandOK(op[o]) /\ op[o].pc = "append"
    BY <1>3, <1>run, <1>idle DEF ReadLedger
  <2>2. Head(op[o].todo) \in Package
    BY <2>1 DEF Running, CommandOK
  <2>3. e \in Entry
    BY <2>1, <2>2 DEF Running, Entry, ContentTypeOK, Files
  <2>4. ledger \in Seq(Entry) /\ Len(ledger) < MaxEntries
    BY <1>3 DEF ReadLedger, ContentTypeOK
  <2>5. Append(ledger, e) \in Seq(Entry) /\ Len(Append(ledger, e)) <= MaxEntries
    BY <2>3, <2>4
  <2>6. op' = [op EXCEPT ![o] = c]
    BY <1>3 DEF ReadLedger, ContentTypeOK
  <2>7. c \in Command /\ CommandOK(c)
    <3>. HIDE DEF e
    <3>. QED  BY <2>1, <2>5 DEF Command, Running, CommandOK
  <2>. HIDE DEF c
  <2>8. op' \in [Operator -> Command] /\ Commands'
    BY <2>6, <2>7, GoesOnTypes
  <2>. QED  BY <1>3, <2>8 DEF ReadLedger, ContentTypeOK
<1>4. ASSUME NEW o \in Operator, RefuseAppend(o)
      PROVE  TypeInv'
  <2>1. op' \in [Operator -> Command] /\ Commands'
    BY <1>4, GoesOnTypes DEF RefuseAppend, Command
  <2>. QED  BY <1>4, <2>1 DEF RefuseAppend, ContentTypeOK
<1>5. ASSUME NEW o \in Operator, OpenLedger(o)
      PROVE  TypeInv'
  <2>1. op[o] \in Running /\ CommandOK(op[o]) /\ op[o].pc = "write"
    BY <1>5, <1>run, <1>idle DEF OpenLedger
  <2>2. op' = [op EXCEPT ![o] = [op[o] EXCEPT !.pc = "close"]]
    BY <1>5 DEF OpenLedger, ContentTypeOK
  <2>3. [op[o] EXCEPT !.pc = "close"] \in Command /\ CommandOK([op[o] EXCEPT !.pc = "close"])
    BY <2>1 DEF Command, Running, CommandOK
  <2>4. op' \in [Operator -> Command] /\ Commands'
    BY <2>2, <2>3, GoesOnTypes
  <2>. QED  BY <1>5, <2>4 DEF OpenLedger, ContentTypeOK
<1>6. ASSUME NEW o \in Operator, CloseLedger(o)
      PROVE  TypeInv'
  <2>1. op[o] \in Running /\ CommandOK(op[o]) /\ op[o].pc = "close"
    BY <1>6, <1>run, <1>idle DEF CloseLedger
  <2>2. op' \in [Operator -> Command] /\ Commands'
    BY <1>6, <2>1, FollowsWell, GoesOnTypes DEF CloseLedger
  <2>3. op[o].entries \in Seq(Entry) /\ Len(op[o].entries) <= MaxEntries
    BY <2>1 DEF Running, CommandOK
  <2>4. ledger' = op[o].entries \/ ledger' = Torn
    BY <1>6 DEF CloseLedger
  <2>. QED  BY <1>6, <2>2, <2>3, <2>4 DEF CloseLedger, ContentTypeOK
<1>7. ASSUME NEW o \in Operator, SignManifest(o)
      PROVE  TypeInv'
  <2>1. op[o] \in Running /\ CommandOK(op[o]) /\ op[o].pc = "sign"
    BY <1>7, <1>run, <1>idle DEF SignManifest
  <2>2. op' \in [Operator -> Command] /\ Commands'
    BY <1>7, GoesOnTypes DEF SignManifest, Command
  <2>3. op[o].approves \in Approvable
    BY <2>1 DEF Running, CommandOK, Approvable
  <2>4. manifest' \in Manifest
    BY <1>7, <2>3 DEF SignManifest, Manifest, Approvable
  <2>. QED  BY <1>7, <2>2, <2>4 DEF SignManifest, ContentTypeOK
<1>8. ASSUME NEW o \in Operator, Die(o)
      PROVE  TypeInv'
  <2>1. op' \in [Operator -> Command] /\ Commands'
    BY <1>8, GoesOnTypes DEF Die, Command
  <2>. QED  BY <1>8, <2>1 DEF Die, ContentTypeOK
<1>9. ASSUME NEW p \in Package, NEW text \in Versions[p], Edit(p, text)
      PROVE  TypeInv'
  <2>1. file' \in Files
    BY <1>9 DEF Edit, ContentTypeOK, Files
  <2>. QED  BY <1>9, <2>1 DEF Edit, ContentTypeOK, Commands, Busy
<1>10. CASE BuildManifest
  <2>1. manifest' \in Manifest
    BY <1>10, ContentsType DEF BuildManifest, Manifest, ContentTypeOK, Approvable
  <2>. QED  BY <1>10, <2>1 DEF BuildManifest, ContentTypeOK, Commands, Busy
<1>11. CASE UNCHANGED contentVars
  BY <1>11 DEF contentVars, ContentTypeOK, Commands
<1>. QED
  BY <1>1, <1>2, <1>3, <1>4, <1>5, <1>6, <1>7, <1>8, <1>9, <1>10, <1>11
  DEF ContentNext, Operate

\* The files and the commands keep their types, however commands overlap or
\* die; the ledger never outgrows its bound.
THEOREM ContentTypeCorrect == ContentSpec => []ContentTypeOK
<1>1. ContentSpec => []TypeInv
  BY TypeInit, TypeStep, PTL DEF ContentSpec
<1>. QED  BY <1>1, PTL DEF TypeInv

-----------------------------------------------------------------------------
(* Publications. *)

LEMMA PublicationsInit == ContentInit => Publications
  BY DEF ContentInit, Publications, WellPublished

LEMMA PublicationsStep ==
  TypeInv /\ TypeInv' /\ Publications /\ [ContentNext]_contentVars => Publications'
<1>. SUFFICES ASSUME TypeInv, TypeInv', Publications, [ContentNext]_contentVars
              PROVE  Publications'
  OBVIOUS
<1>op. op \in [Operator -> Command]
  BY DEF TypeInv, ContentTypeOK
<1>run. ASSUME NEW o \in Operator, NEW pc \in {"append", "write", "close", "sign"}, op[o].pc = pc
        PROVE  op[o] # Idle /\ op[o] \in Running /\ CommandOK(op[o]) /\ WellPublished(op[o].entries)
  BY <1>run DEF Idle, TypeInv, ContentTypeOK, Command, Commands, Publications
<1>begin. ASSUME NEW o \in Operator, NEW action, NEW todo, NEW approves,
                 Begin(o, action, todo, approves)
          PROVE  Publications'
  <2>1. WellPublished(<<>>)
    BY DEF WellPublished
  <2>. QED  BY <1>begin, <1>op, <2>1 DEF Begin, Publications
<1>1. ASSUME NEW o \in Operator, ReadLedger(o)
      PROVE  Publications'
  <2>. DEFINE action == op[o].action
              p == Head(op[o].todo)
              after == Append(ledger, [action |-> action, package |-> p, text |-> file[p]])
  <2>1. op[o] \in Running /\ CommandOK(op[o]) /\ op[o].pc = "append"
    BY <1>1, <1>run DEF ReadLedger
  <2>2. p \in Package /\ action \in {"review", "publish"}
    BY <2>1 DEF Running, CommandOK
  <2>3. file[p] \in Text
    BY <2>2 DEF TypeInv, ContentTypeOK, Files
  <2>4. ledger \in Seq(Entry) /\ WellPublished(ledger)
    BY <1>1 DEF ReadLedger, TypeInv, ContentTypeOK, Publications
  <2>5. action = "publish" => Recorded(ledger, p, file[p])
    BY <1>1 DEF ReadLedger, Appendable
  <2>6. WellPublished(after)
    BY <2>2, <2>3, <2>4, <2>5, WellPublishedNext
  <2>7. op' = [op EXCEPT ![o] = [op[o] EXCEPT !.pc = "write", !.entries = after]]
    BY <1>1, <1>op DEF ReadLedger
  <2>8. [op[o] EXCEPT !.pc = "write", !.entries = after].entries = after
    BY <2>1 DEF Running
  <2>. HIDE DEF after
  <2>. QED  BY <1>1, <1>op, <2>6, <2>7, <2>8 DEF ReadLedger, Publications
<1>2. ASSUME NEW o \in Operator, OpenLedger(o)
      PROVE  Publications'
  <2>1. op[o] \in Running /\ WellPublished(op[o].entries)
    BY <1>2, <1>run DEF OpenLedger
  <2>2. op' = [op EXCEPT ![o] = [op[o] EXCEPT !.pc = "close"]]
    BY <1>2, <1>op DEF OpenLedger
  <2>3. [op[o] EXCEPT !.pc = "close"].entries = op[o].entries
    BY <2>1 DEF Running
  <2>. QED  BY <1>2, <1>op, <2>1, <2>2, <2>3 DEF OpenLedger, Publications
<1>3. ASSUME NEW o \in Operator, CloseLedger(o)
      PROVE  Publications'
  <2>1. op[o] \in Running /\ CommandOK(op[o]) /\ op[o].pc = "close" /\ WellPublished(op[o].entries)
    BY <1>3, <1>run DEF CloseLedger
  <2>2. ledger' = op[o].entries \/ ledger' = Torn
    BY <1>3 DEF CloseLedger
  <2>3. AfterEntry(op[o]) # Idle => AfterEntry(op[o]).entries = op[o].entries
    BY <2>1, FollowsWell
  <2>. QED  BY <1>3, <1>op, <2>1, <2>2, <2>3 DEF CloseLedger, Publications
<1>4. ASSUME NEW o \in Operator, UNCHANGED ledger, op' = [op EXCEPT ![o] = Idle]
      PROVE  Publications'
  BY <1>4, <1>op DEF Publications
<1>5. ASSUME UNCHANGED <<ledger, op>>
      PROVE  Publications'
  BY <1>5 DEF Publications
<1>. QED
  BY <1>begin, <1>1, <1>2, <1>3, <1>4, <1>5
  DEF ContentNext, Operate, StartCommand, StartApproval, RefuseAppend, SignManifest, Die, Edit,
      BuildManifest, contentVars

\* Whatever entries commands lose to each other, the ledger publishes only
\* bytes whose review comes before; for any packages, operators and commands
\* that overlap or die.
THEOREM PublishedIsReviewed == ContentSpec => []PublishedWasReviewed
<1>1. TypeInv /\ Publications => PublishedWasReviewed
  BY DEF Publications, WellPublished, PublishedWasReviewed
<1>2. ContentSpec => [](TypeInv /\ Publications)
  BY TypeInit, TypeStep, PublicationsInit, PublicationsStep, PTL DEF ContentSpec
<1>. QED  BY <1>1, <1>2, PTL

-----------------------------------------------------------------------------
(* Approvals. *)

LEMMA UndisturbedInit == ContentInit => Undisturbed
  BY DEF ContentInit, Undisturbed, Alone, Covered

\* A command is begun alone or overlaps.
LEMMA BeginUndisturbed ==
  ASSUME TypeInv, Undisturbed, NEW o \in Operator, NEW action, NEW todo, NEW approves,
         Begin(o, action, todo, approves),
         approves # Torn => action = "review" /\ approves = Contents(file) /\ Listed(todo) = Package
  PROVE  Undisturbed'
<1>. SUFFICES ASSUME ~overlapped'
              PROVE  Alone' /\ Covered'
  BY DEF Undisturbed
<1>. DEFINE c == [pc |-> "append", action |-> action, todo |-> todo, entries |-> <<>>,
                  approves |-> approves]
<1>1. /\ op' = [op EXCEPT ![o] = c] /\ UNCHANGED <<file, ledger, manifest>>
      /\ ~overlapped /\ \A u \in Operator : op[u] = Idle
  BY DEF Begin, Busy
<1>2. c.pc = "append" /\ c.action = action /\ c.approves = approves /\ c.todo = todo /\ c # Idle
  BY DEF Idle
<1>. HIDE DEF c
<1>3. op'[o] = c /\ \A u \in Operator : u # o => op'[u] = Idle
  BY <1>1 DEF TypeInv, ContentTypeOK
<1>4. Alone'
  <2>1. approves # Torn => Covers(ledger, approves, Listed(todo))
    BY DEF Covers
  <2>. QED  BY <1>1, <1>2, <1>3, <2>1 DEF Alone
<1>5. Covered'
  BY <1>1, <1>2, <1>3 DEF Undisturbed, Covered
<1>. QED  BY <1>4, <1>5

LEMMA UndisturbedStep ==
  TypeInv /\ TypeInv' /\ Undisturbed /\ [ContentNext]_contentVars => Undisturbed'
<1>. SUFFICES ASSUME TypeInv, TypeInv', Undisturbed, [ContentNext]_contentVars
              PROVE  Undisturbed'
  OBVIOUS
<1>op. op \in [Operator -> Command]
  BY DEF TypeInv, ContentTypeOK
<1>run. ASSUME NEW o \in Operator, NEW pc \in {"append", "write", "close", "sign"}, op[o].pc = pc
        PROVE  op[o] # Idle /\ op[o] \in Running /\ CommandOK(op[o])
  BY <1>run DEF Idle, TypeInv, ContentTypeOK, Command, Commands
<1>alone. ASSUME NEW o \in Operator, ~overlapped, op[o] # Idle
          PROVE  Alone /\ Covered /\ \A u \in Operator : u # o => op[u] = Idle
  BY <1>alone DEF Undisturbed, Alone
<1>1. ASSUME NEW o \in Operator, NEW p \in Package, NEW action \in {"review", "publish"},
             StartCommand(o, action, p)
      PROVE  Undisturbed'
  BY <1>1, BeginUndisturbed DEF StartCommand
<1>2. ASSUME NEW o \in Operator, NEW order \in [1..Cardinality(Package) -> Package],
             StartApproval(o, order)
      PROVE  Undisturbed'
  <2>1. Listed(order) = Package
    BY <1>2, OrderIsList DEF StartApproval
  <2>. QED  BY <1>2, <2>1, BeginUndisturbed DEF StartApproval
<1>3. ASSUME NEW o \in Operator, ReadLedger(o)
      PROVE  Undisturbed'
  <2>. DEFINE p == Head(op[o].todo)
              e == [action |-> op[o].action, package |-> p, text |-> file[p]]
              c == [op[o] EXCEPT !.pc = "write", !.entries = Append(ledger, e)]
  <2>. SUFFICES ASSUME ~overlapped
                PROVE  Alone' /\ Covered'
    BY <1>3 DEF ReadLedger, Undisturbed
  <2>1. op[o] \in Running /\ CommandOK(op[o]) /\ op[o].pc = "append" /\ op[o] # Idle
    BY <1>3, <1>run DEF ReadLedger
  <2>2. Alone /\ Covered /\ \A u \in Operator : u # o => op[u] = Idle
    BY <2>1, <1>alone
  <2>3. ledger \in Seq(Entry) /\ ledger # Torn /\ UNCHANGED <<file, ledger, manifest>>
    BY <1>3 DEF ReadLedger, TypeInv, ContentTypeOK
  <2>4. op[o].todo \in Seq(Package) /\ op[o].todo # <<>> /\ p \in Package
    BY <2>1 DEF Running, CommandOK
  <2>5. e \in Entry
    BY <2>1, <2>4 DEF Running, Entry, TypeInv, ContentTypeOK, Files
  <2>6. op' = [op EXCEPT ![o] = c]
    BY <1>3, <1>op DEF ReadLedger
  <2>7. /\ c.pc = "write" /\ c.entries = Append(ledger, e) /\ c.approves = op[o].approves
        /\ c.action = op[o].action /\ c.todo = op[o].todo
    BY <2>1 DEF Running
  <2>8. op'[o] = c /\ \A u \in Operator : u # o => op'[u] = Idle
    BY <1>op, <2>2, <2>6
  <2>9. op[o].approves # Torn => Covers(c.entries, op[o].approves, Listed(Tail(op[o].todo)))
    <3>1. SUFFICES ASSUME op[o].approves # Torn
                   PROVE  Covers(Append(ledger, e), Contents(file), Listed(Tail(op[o].todo)))
      BY <2>1, <2>2, <2>7 DEF Alone
    <3>2. Covers(ledger, Contents(file), Listed(op[o].todo)) /\ op[o].action = "review"
      BY <2>1, <2>2, <2>3, <3>1 DEF Alone
    <3>3. file \in Files
      BY DEF TypeInv, ContentTypeOK
    <3>. QED  BY <2>3, <2>4, <3>2, <3>3, CoversNext
  <2>10. manifest # Torn /\ manifest.status = "approved" => Covers(c.entries, manifest.content, {})
    BY <2>2, <2>3, <2>5, <2>7, CoversStays DEF Covered
  <2>. HIDE DEF c
  <2>11. Alone'
    BY <2>1, <2>2, <2>3, <2>7, <2>8, <2>9 DEF Alone
  <2>12. Covered'
    BY <2>2, <2>3, <2>8, <2>10 DEF Covered
  <2>. QED  BY <2>11, <2>12
<1>4. ASSUME NEW o \in Operator, OpenLedger(o)
      PROVE  Undisturbed'
  <2>. DEFINE c == [op[o] EXCEPT !.pc = "close"]
  <2>. SUFFICES ASSUME ~overlapped
                PROVE  Alone' /\ Covered'
    BY <1>4 DEF OpenLedger, Undisturbed
  <2>1. op[o] \in Running /\ op[o].pc = "write" /\ op[o] # Idle
    BY <1>4, <1>run DEF OpenLedger
  <2>2. Alone /\ Covered /\ \A u \in Operator : u # o => op[u] = Idle
    BY <2>1, <1>alone
  <2>3. op' = [op EXCEPT ![o] = c] /\ ledger' = Torn /\ UNCHANGED <<file, manifest>>
    BY <1>4, <1>op DEF OpenLedger
  <2>4. /\ c.pc = "close" /\ c.entries = op[o].entries /\ c.approves = op[o].approves
        /\ c.action = op[o].action /\ c.todo = op[o].todo
    BY <2>1 DEF Running
  <2>. HIDE DEF c
  <2>5. op'[o] = c /\ \A u \in Operator : u # o => op'[u] = Idle
    BY <1>op, <2>2, <2>3
  <2>6. Alone'
    BY <2>1, <2>2, <2>3, <2>4, <2>5 DEF Alone
  <2>7. Covered'
    BY <2>1, <2>2, <2>3, <2>4, <2>5 DEF Covered
  <2>. QED  BY <2>6, <2>7
<1>5. ASSUME NEW o \in Operator, CloseLedger(o)
      PROVE  Undisturbed'
  <2>. DEFINE c == AfterEntry(op[o])
  <2>. SUFFICES ASSUME ~overlapped
                PROVE  Alone' /\ Covered'
    BY <1>5 DEF CloseLedger, Undisturbed
  <2>1. op[o] \in Running /\ CommandOK(op[o]) /\ op[o].pc = "close" /\ op[o] # Idle
    BY <1>5, <1>run DEF CloseLedger
  <2>2. Alone /\ Covered /\ \A u \in Operator : u # o => op[u] = Idle
    BY <2>1, <1>alone
  <2>3. op' = [op EXCEPT ![o] = c] /\ UNCHANGED <<file, manifest>>
        /\ (ledger' = op[o].entries \/ ledger' = Torn)
    BY <1>5 DEF CloseLedger
  <2>4. c # Idle => /\ c.action = op[o].action /\ c.approves = op[o].approves
                    /\ c.pc \in {"append", "sign"}
                    /\ Listed(c.todo) = Listed(Tail(op[o].todo))
    BY <2>1, FollowsWell
  <2>5. ASSUME c # Idle, c.approves # Torn
        PROVE  /\ c.action = "review" /\ c.approves = Contents(file)
               /\ ledger' # Torn => Covers(ledger', c.approves, Listed(c.todo))
    <3>1. /\ op[o].action = "review" /\ op[o].approves = Contents(file)
          /\ Covers(op[o].entries, op[o].approves, Listed(Tail(op[o].todo)))
      BY <2>1, <2>2, <2>4, <2>5 DEF Alone
    <3>2. Covers(op[o].entries, op[o].approves, Listed(c.todo))
      BY <2>4, <2>5, <3>1 DEF Covers
    <3>. QED  BY <2>3, <2>4, <2>5, <3>1, <3>2
  <2>. HIDE DEF c
  <2>6. op'[o] = c /\ \A u \in Operator : u # o => op'[u] = Idle
    BY <1>op, <2>2, <2>3
  <2>7. Alone'
    BY <2>3, <2>4, <2>5, <2>6 DEF Alone
  <2>8. Covered'
    BY <2>1, <2>2, <2>3, <2>4, <2>6 DEF Covered
  <2>. QED  BY <2>7, <2>8
<1>6. ASSUME NEW o \in Operator, SignManifest(o)
      PROVE  Undisturbed'
  <2>. SUFFICES ASSUME ~overlapped
                PROVE  Alone' /\ Covered'
    BY <1>6 DEF SignManifest, Undisturbed
  <2>1. CommandOK(op[o]) /\ op[o].pc = "sign" /\ op[o] # Idle
    BY <1>6, <1>run DEF SignManifest
  <2>2. Alone /\ \A u \in Operator : u # o => op[u] = Idle
    BY <2>1, <1>alone
  <2>3. /\ op' = [op EXCEPT ![o] = Idle] /\ UNCHANGED <<file, ledger>>
        /\ manifest'.content = op[o].approves
    BY <1>6 DEF SignManifest
  <2>4. \A u \in Operator : op'[u] = Idle
    BY <1>op, <2>2, <2>3
  <2>5. ledger # Torn => Covers(ledger, op[o].approves, {})
    <3>1. Listed(op[o].todo) = {}
      BY <2>1 DEF CommandOK, Listed
    <3>. QED  BY <2>1, <2>2, <3>1 DEF CommandOK, Alone
  <2>6. Alone'
    BY <2>4 DEF Alone
  <2>7. Covered'
    BY <2>3, <2>4, <2>5 DEF Covered
  <2>. QED  BY <2>6, <2>7
<1>7. ASSUME NEW o \in Operator, op' = [op EXCEPT ![o] = Idle], manifest' \in {manifest, Torn},
             UNCHANGED <<file, ledger, overlapped>>
      PROVE  Undisturbed'
  <2>1. \A u \in Operator : op'[u] = Idle \/ op'[u] = op[u]
    BY <1>7, <1>op
  <2>2. Undisturbed => (Alone => Alone')
    BY <1>7, <2>1 DEF Alone
  <2>3. Covered => Covered'
    BY <1>7, <2>1 DEF Covered
  <2>. QED  BY <1>7, <2>2, <2>3 DEF Undisturbed
<1>8. ASSUME overlapped' = (overlapped \/ Busy), UNCHANGED <<ledger, op>>,
             manifest' = manifest \/ manifest'.status = "pending"
      PROVE  Undisturbed'
  <2>. SUFFICES ASSUME ~overlapped'
                PROVE  Alone' /\ Covered'
    BY DEF Undisturbed
  <2>1. ~overlapped /\ \A u \in Operator : op'[u] = Idle
    BY <1>8 DEF Busy
  <2>2. Alone'
    BY <2>1 DEF Alone
  <2>3. Covered'
    BY <1>8, <2>1 DEF Undisturbed, Covered
  <2>. QED  BY <2>2, <2>3
<1>9. CASE UNCHANGED contentVars
  BY <1>9 DEF contentVars, Undisturbed, Alone, Covered
<1>10. ASSUME NEW o \in Operator, RefuseAppend(o) \/ Die(o)
       PROVE  Undisturbed'
  BY <1>7, <1>10 DEF RefuseAppend, Die
<1>11. ASSUME NEW p \in Package, NEW text \in Versions[p], Edit(p, text)
       PROVE  Undisturbed'
  BY <1>8, <1>11 DEF Edit
<1>12. CASE BuildManifest
  BY <1>8, <1>12 DEF BuildManifest
<1>. QED
  BY <1>1, <1>2, <1>3, <1>4, <1>5, <1>6, <1>9, <1>10, <1>11, <1>12 DEF ContentNext, Operate

\* Without overlap, a data set that passes for approved has, for every package it
\* covers, a review of bytes that say the same in the ledger, after any number of
\* approvals that died half-way, edits, other layouts and new manifests.
THEOREM ApprovedIsInLedger == ContentSpec => []ApprovalIsInLedger
<1>1. TypeInv /\ Undisturbed => ApprovalIsInLedger
  <2>. SUFFICES ASSUME TypeInv, Undisturbed, ~overlapped, ledger # Torn, ReviewApproved,
                       NEW p \in Package
                PROVE  RecordedContent(ledger, p, Parsed(file[p]))
    BY DEF ApprovalIsInLedger
  <2>1. [status |-> "approved", content |-> Contents(file)] \in Manifest
    BY ContentsType DEF Manifest, Approvable, TypeInv, ContentTypeOK
  <2>2. manifest # Torn /\ manifest.status = "approved" /\ manifest.content = Contents(file)
    BY <2>1 DEF ReviewApproved
  <2>3. RecordedContent(ledger, p, Contents(file)[p])
    BY <2>2 DEF Undisturbed, Covered, Covers
  <2>. QED  BY <2>3 DEF Contents
<1>2. ContentSpec => [](TypeInv /\ Undisturbed)
  BY TypeInit, TypeStep, UndisturbedInit, UndisturbedStep, PTL DEF ContentSpec
<1>. QED  BY <1>1, <1>2, PTL

-----------------------------------------------------------------------------
(* The search for cycles: two inductions, over what a loop has treated and  *)
(* over how many packages the search may still enter.                       *)

\* Of some subsets of a finite set one contains no other.
LEMMA SmallestSet ==
  ASSUME NEW S, IsFiniteSet(S), NEW T, T \subseteq SUBSET S, T # {}
  PROVE  \E x \in T : \A y \in T : y \subseteq x => y = x
<1>1. T \subseteq FiniteSubsetsOf(S)
  BY FS_FiniteSubsetsOfFinite
<1>2. IsWellFoundedOn(StrictSubsetOrdering(S), FiniteSubsetsOf(S))
  BY FS_StrictSubsetOrderingWellFounded
<1>3. PICK x \in T : \A y \in T : ~(<<y, x>> \in StrictSubsetOrdering(S))
  BY <1>1, <1>2, WFMin
<1>4. ASSUME NEW y \in T, y \subseteq x, y # x
      PROVE  FALSE
  <2>1. <<y, x>> \in (SUBSET S) \X (SUBSET S)
    OBVIOUS
  <2>2. <<y, x>> \in StrictSubsetOrdering(S)
    BY <1>4, <2>1 DEF StrictSubsetOrdering
  <2>. QED  BY <1>3, <2>2
<1>. QED  BY <1>4

\* Induction over the natural numbers, for the numbers in a set.
LEMMA Induction ==
  ASSUME NEW A, 0 \in A, \A n \in Nat : n \in A => n + 1 \in A
  PROVE  Nat \subseteq A
<1>. SUFFICES ASSUME NEW k \in Nat, k \notin A
              PROVE  FALSE
  OBVIOUS
<1>. DEFINE T == {s \in SUBSET (0..k) : \E m \in (0..k) \ A : s = 0..m}
<1>1. T \subseteq SUBSET (0..k) /\ IsFiniteSet(0..k)
  BY FS_Interval
<1>2. 0..k \in T
  OBVIOUS
<1>3. PICK s \in T : \A y \in T : y \subseteq s => y = s
  <2>1. T # {}
    BY <1>2
  <2>. DEFINE S == 0..k
  <2>2. T \subseteq SUBSET S /\ IsFiniteSet(S)
    BY <1>1
  <2>. HIDE DEF S, T
  <2>. QED  BY <2>1, <2>2, SmallestSet
<1>4. PICK m \in (0..k) \ A : s = 0..m
  BY <1>3
<1>5. m # 0
  OBVIOUS
<1>6. m - 1 \in Nat /\ m - 1 \in (0..k) /\ m - 1 \notin A
  BY <1>4, <1>5
<1>7. 0..(m-1) \in T /\ 0..(m-1) \subseteq s
  BY <1>4, <1>6
<1>8. m \in s /\ m \notin 0..(m-1)
  BY <1>4
<1>. QED  BY <1>3, <1>7, <1>8

\* The choice FoldSet makes.
Pick(s) == CHOOSE x \in s : TRUE

\* g tells what the loop over a set has made of base after each part of it.
Loop(g, v, base, T) ==
   g = [s \in SUBSET T |-> IF s = {} THEN base ELSE v[<<Pick(s), g[s \ {Pick(s)}]>>]]

\* The recursion behind a loop over a finite set has a solution.
LEMMA LoopExists ==
  ASSUME NEW v, NEW base, NEW T, IsFiniteSet(T)
  PROVE  \E g : Loop(g, v, base, T)
<1>. DEFINE Body(g, s) == IF s = {} THEN base ELSE v[<<Pick(s), g[s \ {Pick(s)}]>>]
            Upto(g, n) == \A s \in SUBSET T : Cardinality(s) < n => g[s] = Body(g, s)
            A == {n \in Nat : \E g : Upto(g, n)}
<1>1. \A s \in SUBSET T : Cardinality(s) \in Nat
  BY FS_Subset, FS_CardinalityType
<1>2. 0 \in A
  BY <1>1
<1>3. ASSUME NEW n \in Nat, NEW g, Upto(g, n)
      PROVE  \E h : Upto(h, n+1)
  <2>. DEFINE h == [s \in SUBSET T |-> IF Cardinality(s) < n THEN g[s] ELSE Body(g, s)]
  <2>1. ASSUME NEW s \in SUBSET T, Cardinality(s) < n + 1
        PROVE  h[s] = Body(h, s)
    <3>1. CASE s = {}
      BY <3>1, <1>3
    <3>2. CASE s # {}
      <4>. DEFINE t == s \ {Pick(s)}
      <4>1. Pick(s) \in s
        BY <3>2 DEF Pick
      <4>2. IsFiniteSet(s)
        BY FS_Subset
      <4>3. Cardinality(t) = Cardinality(s) - 1
        BY <4>1, <4>2, FS_RemoveElement
      <4>4. Cardinality(t) < n /\ t \in SUBSET T
        BY <4>3, <2>1, <1>1
      <4>5. h[t] = g[t]
        BY <4>4
      <4>6. h[s] = Body(g, s)
        BY <1>3
      <4>. QED  BY <4>5, <4>6, <3>2
    <3>. QED  BY <3>1, <3>2
  <2>. HIDE DEF h
  <2>. QED  BY <2>1
<1>4. Nat \subseteq A
  <2>1. ASSUME NEW n \in Nat, n \in A
        PROVE  n + 1 \in A
    <3>. HIDE DEF Upto
    <3>1. PICK g : Upto(g, n)
      BY <2>1
    <3>2. PICK h : Upto(h, n+1)
      BY <1>3, <3>1
    <3>3. n + 1 \in Nat
      OBVIOUS
    <3>. QED  BY <3>2, <3>3
  <2>. HIDE DEF A
  <2>. QED  BY <1>2, <2>1, Induction
<1>5. PICK g : Upto(g, Cardinality(T) + 1)
  <2>1. Cardinality(T) + 1 \in Nat
    BY FS_CardinalityType
  <2>. HIDE DEF Upto
  <2>. QED  BY <1>4, <2>1
<1>6. ASSUME NEW s \in SUBSET T
      PROVE  g[s] = Body(g, s)
  <2>1. Cardinality(s) <= Cardinality(T) /\ Cardinality(s) \in Nat /\ Cardinality(T) \in Nat
    BY <1>1, FS_Subset, FS_CardinalityType
  <2>2. Cardinality(s) < Cardinality(T) + 1
    BY <2>1
  <2>. HIDE DEF Body
  <2>. QED  BY <1>5, <2>2
<1>. DEFINE h == [s \in SUBSET T |-> g[s]]
<1>7. h = [s \in SUBSET T |-> Body(h, s)]
  <2>1. ASSUME NEW s \in SUBSET T
        PROVE  g[s] = Body(h, s)
    <3>1. s \ {Pick(s)} \in SUBSET T
      OBVIOUS
    <3>. QED  BY <3>1, <1>6
  <2>. QED  BY <2>1
<1>. HIDE DEF h
<1>. QED  BY <1>7 DEF Loop

\* The loop over T calling v.
Over(v, base, T) == FoldSet(LAMBDA r, x : v[<<r, x>>], base, T)

\* That solution is what FoldSet computes.
LEMMA FoldIsLoop ==
  ASSUME NEW v, NEW base, NEW T, IsFiniteSet(T)
  PROVE  \E g : Loop(g, v, base, T) /\ Over(v, base, T) = g[T]
<1>. DEFINE g == CHOOSE h : Loop(h, v, base, T)
<1>1. Over(v, base, T) = g[T]
  BY DEF Over, FoldSet, MapThenFoldSet, Loop, Pick
<1>2. Loop(g, v, base, T)
  BY LoopExists
<1>. QED  BY <1>1, <1>2

\* An invariant of the loop, indexed by the part of T that was treated.
LEMMA FoldEndsIn ==
  ASSUME NEW v, NEW base, NEW T, IsFiniteSet(T),
         NEW I, base \in I[{}],
         \A S \in SUBSET T, r \in T : r \notin S => \A x \in I[S] : v[<<r, x>>] \in I[S \union {r}]
  PROVE  Over(v, base, T) \in I[T]
<1>1. PICK g : Loop(g, v, base, T) /\ Over(v, base, T) = g[T]
  BY FoldIsLoop
<1>. DEFINE Bad == {s \in SUBSET T : g[s] \notin I[s]}
<1>2. ASSUME Bad # {}
      PROVE  FALSE
  <2>1. PICK s \in Bad : \A t \in Bad : t \subseteq s => t = s
    <3>1. Bad \subseteq SUBSET T
      OBVIOUS
    <3>. HIDE DEF Bad
    <3>. QED  BY <3>1, <1>2, SmallestSet
  <2>2. s # {}
    BY <1>1 DEF Loop
  <2>. DEFINE r == Pick(s)  t == s \ {r}
  <2>3. r \in s
    BY <2>2 DEF Pick
  <2>4. t \subseteq s /\ t # s /\ t \in SUBSET T /\ r \in T /\ r \notin t /\ t \union {r} = s
    BY <2>3
  <2>5. g[t] \in I[t]
    BY <2>1, <2>4
  <2>6. g[s] = v[<<r, g[t]>>]
    BY <1>1, <2>2 DEF Loop
  <2>7. v[<<r, g[t]>>] \in I[t \union {r}]
    <3>. HIDE DEF r, t
    <3>. QED  BY <2>4, <2>5
  <2>. QED  BY <2>4, <2>6, <2>7
<1>. QED  BY <1>1, <1>2

\* An invariant that does not look at the part treated.
LEMMA FoldKeeps ==
  ASSUME NEW v, NEW base, NEW T, IsFiniteSet(T),
         NEW I, base \in I, \A r \in T, x \in I : v[<<r, x>>] \in I
  PROVE  Over(v, base, T) \in I
<1>. DEFINE J == [S \in SUBSET T |-> I]
<1>1. base \in J[{}] /\ J[T] = I
  OBVIOUS
<1>2. \A S \in SUBSET T, r \in T : r \notin S => \A x \in J[S] : v[<<r, x>>] \in J[S \union {r}]
  OBVIOUS
<1>. HIDE DEF J
<1>3. Over(v, base, T) \in J[T]
  BY <1>1, <1>2, FoldEndsIn
<1>. QED  BY <1>1, <1>3

\* Two functions that agree wherever the loop takes them make the same loop.
LEMMA FoldAgrees ==
  ASSUME NEW v, NEW u, NEW base, NEW T, IsFiniteSet(T), NEW I, base \in I,
         \A r \in T, x \in I : v[<<r, x>>] \in I /\ u[<<r, x>>] = v[<<r, x>>]
  PROVE  Over(u, base, T) = Over(v, base, T)
<1>1. PICK g : Loop(g, v, base, T) /\ Over(v, base, T) = g[T]
  BY FoldIsLoop
<1>2. PICK h : Loop(h, u, base, T) /\ Over(u, base, T) = h[T]
  BY FoldIsLoop
<1>. DEFINE Bad == {s \in SUBSET T : ~(g[s] \in I /\ h[s] = g[s])}
<1>3. ASSUME Bad # {}
      PROVE  FALSE
  <2>1. PICK s \in Bad : \A t \in Bad : t \subseteq s => t = s
    <3>1. Bad \subseteq SUBSET T
      OBVIOUS
    <3>. HIDE DEF Bad
    <3>. QED  BY <3>1, <1>3, SmallestSet
  <2>2. s # {}
    BY <1>1, <1>2 DEF Loop
  <2>. DEFINE r == Pick(s)  t == s \ {r}
  <2>3. r \in s
    BY <2>2 DEF Pick
  <2>4. t \subseteq s /\ t # s /\ t \in SUBSET T /\ r \in T
    BY <2>3
  <2>5. g[t] \in I /\ h[t] = g[t]
    BY <2>1, <2>4
  <2>6. g[s] = v[<<r, g[t]>>] /\ h[s] = u[<<r, h[t]>>]
    BY <1>1, <1>2, <2>2 DEF Loop
  <2>7. v[<<r, g[t]>>] \in I /\ u[<<r, g[t]>>] = v[<<r, g[t]>>]
    BY <2>4, <2>5
  <2>. QED  BY <2>5, <2>6, <2>7
<1>. QED  BY <1>1, <1>2, <1>3


\* What visit does in call k, with the calls it makes answered by g.
StepOf(f, g, k) ==
  LET q == k[1]  w == k[2] IN
  IF q \in w.visiting THEN [w EXCEPT !.cycle = TRUE]
  ELSE IF q \in w.visited THEN w
  ELSE LET after == Over(g, [w EXCEPT !.visiting = @ \union {q}], f[q].needs) IN
       [after EXCEPT !.visiting = @ \ {q}, !.visited = @ \union {q}]

\* The function visit of the definition of Visit.
Search(f) == CHOOSE g : g = [k \in Package \X Walk |-> StepOf(f, g, k)]

LEMMA VisitIsSearch ==
  ASSUME NEW f, NEW p, NEW w
  PROVE  Visit(f, p, w) = Search(f)[<<p, w>>]
BY DEF Visit, Search, StepOf, Over

LEMMA CyclicIsSearch ==
  ASSUME NEW f
  PROVE  Cyclic(f) = Over(Search(f), [visiting |-> {}, visited |-> {}, cycle |-> FALSE], Package).cycle
BY DEF Cyclic, Visit, Search, StepOf, Over

\* How many packages a search entered with k may still enter.
Depth(k) == Cardinality(Package \ k[2].visiting)

\* What visit is called with.
Calls == Package \X Walk

LEMMA DepthIsNat ==
  ASSUME NEW k \in Calls
  PROVE  Depth(k) \in Nat /\ Depth(k) <= Cardinality(Package) /\ Cardinality(Package) \in Nat
<1>1. Package \ k[2].visiting \subseteq Package
  OBVIOUS
<1>2. IsFiniteSet(Package)
  BY PackageAssumption
<1>. QED  BY <1>1, <1>2, FS_Subset, FS_CardinalityType DEF Depth

\* What is searched after k was entered is entered with less left to enter.
LEMMA DepthFalls ==
  ASSUME NEW k \in Calls, k[1] \notin k[2].visiting,
         NEW e \in Calls, e[2].visiting = k[2].visiting \union {k[1]}
  PROVE  Depth(e) < Depth(k)
<1>. DEFINE S == Package \ k[2].visiting
<1>1. IsFiniteSet(S)
  BY PackageAssumption, FS_Subset
<1>2. k[1] \in S
  BY DEF Calls
<1>3. Cardinality(S \ {k[1]}) = Cardinality(S) - 1
  <2>. HIDE DEF S
  <2>. QED  BY <1>1, <1>2, FS_RemoveElement
<1>4. Package \ e[2].visiting = S \ {k[1]}
  OBVIOUS
<1>5. Depth(k) = Cardinality(S) /\ Depth(e) = Cardinality(S \ {k[1]})
  BY <1>4 DEF Depth
<1>. HIDE DEF S
<1>. QED  BY <1>3, <1>5, DepthIsNat

\* The walk as visit enters the package of call k.
Entered(k) == [k[2] EXCEPT !.visiting = @ \union {k[1]}]

\* Walks that are where the search is after it entered k.
Inside(k) == {x \in Walk : x.visiting = k[2].visiting \union {k[1]}}

LEMMA EnteredIsInside ==
  ASSUME NEW k \in Calls
  PROVE  Entered(k) \in Inside(k)
BY DEF Entered, Inside, Calls, Walk

LEMMA InsideIsDeeper ==
  ASSUME NEW k \in Calls, k[1] \notin k[2].visiting, NEW r \in Package, NEW x \in Inside(k)
  PROVE  <<r, x>> \in Calls /\ Depth(<<r, x>>) < Depth(k)
<1>1. <<r, x>> \in Calls /\ <<r, x>>[2].visiting = k[2].visiting \union {k[1]}
  BY DEF Inside, Calls
<1>. QED  BY <1>1, DepthFalls

\* g returns a walk that is where it was.
Returns(g, k) == g[k] \in Walk /\ g[k].visiting = k[2].visiting

LEMMA NeedsAreFinite ==
  ASSUME NEW f \in Files, NEW p \in Package
  PROVE  f[p].needs \in SUBSET Package /\ IsFiniteSet(f[p].needs)
<1>1. f[p].needs \in SUBSET Package
  BY DEF Files, Text
<1>. QED  BY <1>1, PackageAssumption, FS_Subset

LEMMA LoopStaysInside ==
  ASSUME NEW f \in Files, NEW k \in Calls, k[1] \notin k[2].visiting, NEW g,
         \A e \in Calls : Depth(e) < Depth(k) => Returns(g, e)
  PROVE  Over(g, Entered(k), f[k[1]].needs) \in Inside(k)
<1>1. f[k[1]].needs \in SUBSET Package /\ IsFiniteSet(f[k[1]].needs)
  BY NeedsAreFinite DEF Calls
<1>2. ASSUME NEW r \in f[k[1]].needs, NEW x \in Inside(k)
      PROVE  g[<<r, x>>] \in Inside(k)
  <2>1. Returns(g, <<r, x>>)
    BY <1>1, InsideIsDeeper
  <2>. QED  BY <2>1 DEF Returns, Inside
<1>. QED  BY <1>1, <1>2, EnteredIsInside, FoldKeeps

\* One step returns where it was if the deeper searches do.
LEMMA StepReturns ==
  ASSUME NEW f \in Files, NEW k \in Calls, NEW g,
         \A e \in Calls : Depth(e) < Depth(k) => Returns(g, e)
  PROVE  StepOf(f, g, k) \in Walk /\ StepOf(f, g, k).visiting = k[2].visiting
<1>1. k[1] \in Package /\ k[2] \in Walk
  BY DEF Calls
<1>2. CASE k[1] \in k[2].visiting \/ k[1] \in k[2].visited
  BY <1>1, <1>2 DEF StepOf, Walk
<1>3. CASE k[1] \notin k[2].visiting /\ k[1] \notin k[2].visited
  <2>. DEFINE after == Over(g, Entered(k), f[k[1]].needs)
  <2>1. after \in Walk /\ after.visiting = k[2].visiting \union {k[1]}
    BY <1>3, LoopStaysInside DEF Inside
  <2>2. StepOf(f, g, k) = [after EXCEPT !.visiting = @ \ {k[1]}, !.visited = @ \union {k[1]}]
    BY <1>3 DEF StepOf, Entered
  <2>. HIDE DEF after
  <2>3. after.visiting \ {k[1]} = k[2].visiting
    BY <1>3, <2>1
  <2>4. after.visited \union {k[1]} \in SUBSET Package /\ k[2].visiting \in SUBSET Package
    BY <1>1, <2>1 DEF Walk
  <2>5. StepOf(f, g, k).visiting = after.visiting \ {k[1]}
    BY <2>1, <2>2 DEF Walk
  <2>6. StepOf(f, g, k) \in Walk
    BY <2>1, <2>2, <2>3, <2>4 DEF Walk
  <2>. QED  BY <2>3, <2>5, <2>6
<1>. QED  BY <1>2, <1>3

\* One step looks at deeper searches only.
LEMMA StepAgrees ==
  ASSUME NEW f \in Files, NEW k \in Calls, NEW g, NEW h,
         \A e \in Calls : Depth(e) < Depth(k) => Returns(g, e) /\ h[e] = g[e]
  PROVE  StepOf(f, h, k) = StepOf(f, g, k)
<1>1. CASE k[1] \in k[2].visiting \/ k[1] \in k[2].visited
  BY <1>1 DEF StepOf
<1>2. CASE k[1] \notin k[2].visiting /\ k[1] \notin k[2].visited
  <2>1. f[k[1]].needs \in SUBSET Package /\ IsFiniteSet(f[k[1]].needs)
    BY NeedsAreFinite DEF Calls
  <2>2. ASSUME NEW r \in f[k[1]].needs, NEW x \in Inside(k)
        PROVE  g[<<r, x>>] \in Inside(k) /\ h[<<r, x>>] = g[<<r, x>>]
    <3>1. Returns(g, <<r, x>>) /\ h[<<r, x>>] = g[<<r, x>>]
      BY <1>2, <2>1, InsideIsDeeper
    <3>. QED  BY <3>1 DEF Returns, Inside
  <2>3. Over(h, Entered(k), f[k[1]].needs) = Over(g, Entered(k), f[k[1]].needs)
    BY <2>1, <2>2, EnteredIsInside, FoldAgrees
  <2>. QED  BY <1>2, <2>3 DEF StepOf, Entered
<1>. QED  BY <1>1, <1>2

\* The recursive search has a solution: it never goes deeper than there are
\* packages left to enter.
LEMMA SearchExists ==
  ASSUME NEW f \in Files
  PROVE  /\ DOMAIN Search(f) = Calls
         /\ \A k \in Calls : Search(f)[k] = StepOf(f, Search(f), k)
<1>. DEFINE All(g) == \A k \in Calls : Returns(g, k)
            Upto(g, n) == \A k \in Calls : Depth(k) < n => g[k] = StepOf(f, g, k)
            A == {n \in Nat : \E g : All(g) /\ Upto(g, n)}
<1>1. 0 \in A
  <2>. DEFINE g == [k \in Calls |-> k[2]]
  <2>1. All(g)
    BY DEF Calls, Returns
  <2>2. Upto(g, 0)
    <3>. SUFFICES ASSUME NEW k \in Calls
                  PROVE  ~(Depth(k) < 0)
      OBVIOUS
    <3>. QED  BY DepthIsNat
  <2>. HIDE DEF g, All, Upto
  <2>. QED  BY <2>1, <2>2
<1>2. ASSUME NEW n \in Nat, NEW g, All(g), Upto(g, n)
      PROVE  \E h : All(h) /\ Upto(h, n + 1)
  <2>. DEFINE h == [k \in Calls |-> IF Depth(k) < n THEN g[k] ELSE StepOf(f, g, k)]
  <2>1. ASSUME NEW k \in Calls
        PROVE  Returns(h, k)
    <3>1. Returns(g, k)
      BY <1>2
    <3>2. StepOf(f, g, k) \in Walk /\ StepOf(f, g, k).visiting = k[2].visiting
      BY <1>2, StepReturns
    <3>. QED  BY <3>1, <3>2 DEF Returns
  <2>2. ASSUME NEW k \in Calls, Depth(k) < n + 1
        PROVE  h[k] = StepOf(f, h, k)
    <3>1. h[k] = StepOf(f, g, k)
      BY <1>2
    <3>2. ASSUME NEW e \in Calls, Depth(e) < Depth(k)
          PROVE  Returns(g, e) /\ h[e] = g[e]
      <4>1. Depth(e) < n
        BY <2>2, <3>2, DepthIsNat
      <4>. QED  BY <1>2, <4>1
    <3>. HIDE DEF h
    <3>3. StepOf(f, h, k) = StepOf(f, g, k)
      BY <3>2, StepAgrees
    <3>. QED  BY <3>1, <3>3
  <2>. HIDE DEF h
  <2>. QED  BY <2>1, <2>2
<1>3. Nat \subseteq A
  <2>1. ASSUME NEW n \in Nat, n \in A
        PROVE  n + 1 \in A
    <3>. HIDE DEF All, Upto
    <3>1. PICK g : All(g) /\ Upto(g, n)
      BY <2>1
    <3>2. PICK h : All(h) /\ Upto(h, n + 1)
      BY <1>2, <3>1
    <3>3. n + 1 \in Nat
      OBVIOUS
    <3>. QED  BY <3>2, <3>3
  <2>. HIDE DEF A
  <2>. QED  BY <1>1, <2>1, Induction
<1>. DEFINE N == Cardinality(Package) + 1
<1>4. N \in Nat
  BY PackageAssumption, FS_CardinalityType
<1>5. PICK g : All(g) /\ Upto(g, N)
  <2>. HIDE DEF All, Upto, N
  <2>. QED  BY <1>3, <1>4
<1>. DEFINE h == [k \in Calls |-> g[k]]
<1>6. ASSUME NEW k \in Calls
      PROVE  h[k] = StepOf(f, h, k)
  <2>1. Depth(k) < N
    BY DepthIsNat
  <2>2. g[k] = StepOf(f, g, k)
    BY <1>5, <2>1
  <2>3. \A e \in Calls : Returns(g, e) /\ h[e] = g[e]
    BY <1>5
  <2>4. h[k] = g[k]
    OBVIOUS
  <2>. HIDE DEF h
  <2>5. StepOf(f, h, k) = StepOf(f, g, k)
    BY <2>3, StepAgrees
  <2>. QED  BY <2>2, <2>4, <2>5
<1>7. h = [k \in Calls |-> h[k]]
  OBVIOUS
<1>. HIDE DEF h
<1>8. h = [k \in Calls |-> StepOf(f, h, k)]
  BY <1>6, <1>7
<1>9. \E s : s = [k \in Calls |-> StepOf(f, s, k)]
  BY <1>8
<1>10. Search(f) = [k \in Calls |-> StepOf(f, Search(f), k)]
  BY <1>9 DEF Search, Calls
<1>11. ASSUME NEW s, s = [k \in Calls |-> StepOf(f, s, k)]
       PROVE  DOMAIN s = Calls /\ \A k \in Calls : s[k] = StepOf(f, s, k)
  BY <1>11
<1>. QED  BY <1>10, <1>11

\* What is visited names nothing else, and every part of it has a package that
\* names nothing of that part.
Grounded(f, S) ==
    /\ \A p \in S : f[p].needs \subseteq S
    /\ \A T \in SUBSET S : T # {} => \E p \in T : f[p].needs \intersect T = {}

Sound(f, w) ==
    /\ w.visited \intersect w.visiting = {}
    /\ ~w.cycle => Grounded(f, w.visited)

\* The walk after a search from p that began with w.
Continues(f, p, w, x) ==
    /\ x \in Walk /\ x.visiting = w.visiting
    /\ w.visited \subseteq x.visited
    /\ w.cycle => x.cycle
    /\ Sound(f, x)
    /\ ~x.cycle => p \in x.visited

\* A package that names only grounded ones joins them.
LEMMA GroundedGrows ==
  ASSUME NEW f \in Files, NEW S \in SUBSET Package, Grounded(f, S), NEW q \in Package, q \notin S,
         f[q].needs \subseteq S
  PROVE  Grounded(f, S \union {q})
<1>1. ASSUME NEW T \in SUBSET (S \union {q}), T # {}
      PROVE  \E p \in T : f[p].needs \intersect T = {}
  <2>1. CASE T \ {q} = {}
    BY <1>1, <2>1
  <2>2. CASE T \ {q} # {}
    <3>1. PICK p \in T \ {q} : f[p].needs \intersect (T \ {q}) = {}
      BY <2>2 DEF Grounded
    <3>2. f[p].needs \subseteq S
      BY <3>1 DEF Grounded
    <3>. QED  BY <3>1, <3>2
  <2>. QED  BY <2>1, <2>2
<1>2. \A p \in S \union {q} : f[p].needs \subseteq S \union {q}
  BY DEF Grounded
<1>. QED  BY <1>1, <1>2 DEF Grounded

\* Inside the search: the packages in T have been searched since base.
Searched(f, base, T) ==
    {x \in Walk : /\ x.visiting = base.visiting
                  /\ base.visited \subseteq x.visited
                  /\ base.cycle => x.cycle
                  /\ Sound(f, x)
                  /\ ~x.cycle => T \subseteq x.visited}

LEMMA LoopSearches ==
  ASSUME NEW f \in Files, NEW g, NEW base \in Walk, Sound(f, base),
         NEW T \in SUBSET Package,
         \A r \in T, x \in Walk :
            x.visiting = base.visiting /\ Sound(f, x) => Continues(f, r, x, g[<<r, x>>])
  PROVE  Over(g, base, T) \in Searched(f, base, T)
<1>. DEFINE I == [S \in SUBSET T |-> Searched(f, base, S)]
<1>1. base \in I[{}] /\ I[T] = Searched(f, base, T)
  BY DEF Searched
<1>2. ASSUME NEW S \in SUBSET T, NEW r \in T, r \notin S, NEW x \in I[S]
      PROVE  g[<<r, x>>] \in I[S \union {r}]
  <2>1. x \in Walk /\ x.visiting = base.visiting /\ Sound(f, x) /\ x \in Searched(f, base, S)
    BY DEF Searched
  <2>2. Continues(f, r, x, g[<<r, x>>])
    BY <2>1
  <2>3. g[<<r, x>>] \in Searched(f, base, S \union {r})
    BY <2>1, <2>2 DEF Searched, Continues
  <2>. QED  BY <2>3
<1>3. IsFiniteSet(T)
  BY PackageAssumption, FS_Subset
<1>. HIDE DEF I
<1>4. Over(g, base, T) \in I[T]
  BY <1>1, <1>2, <1>3, FoldEndsIn
<1>. QED  BY <1>1, <1>4

\* One step is right if the deeper searches are.
LEMMA StepContinues ==
  ASSUME NEW f \in Files, NEW k \in Calls, Sound(f, k[2]), NEW g,
         \A e \in Calls : Depth(e) < Depth(k) /\ Sound(f, e[2]) => Continues(f, e[1], e[2], g[e])
  PROVE  Continues(f, k[1], k[2], StepOf(f, g, k))
<1>. DEFINE q == k[1]  w == k[2]
<1>1. q \in Package /\ w \in Walk
  BY DEF Calls
<1>2. CASE q \in w.visiting
  <2>1. StepOf(f, g, k) = [w EXCEPT !.cycle = TRUE]
    BY <1>2 DEF StepOf
  <2>. QED  BY <1>1, <2>1 DEF Continues, Sound, Walk
<1>3. CASE q \notin w.visiting /\ q \in w.visited
  <2>1. StepOf(f, g, k) = w
    BY <1>3 DEF StepOf
  <2>. QED  BY <1>1, <1>3, <2>1 DEF Continues
<1>4. CASE q \notin w.visiting /\ q \notin w.visited
  <2>. DEFINE base == Entered(k)  after == Over(g, base, f[q].needs)
              done == StepOf(f, g, k)
  <2>1. /\ base \in Walk /\ base.visiting = w.visiting \union {q}
        /\ base.visited = w.visited /\ base.cycle = w.cycle
    BY <1>1 DEF Entered, Walk
  <2>2. Sound(f, base)
    BY <1>4, <2>1 DEF Sound
  <2>3. f[q].needs \in SUBSET Package
    BY <1>1, NeedsAreFinite
  <2>4. ASSUME NEW r \in f[q].needs, NEW x \in Walk, x.visiting = base.visiting, Sound(f, x)
        PROVE  Continues(f, r, x, g[<<r, x>>])
    <3>1. x \in Inside(k)
      BY <2>1, <2>4 DEF Inside
    <3>2. <<r, x>> \in Calls /\ Depth(<<r, x>>) < Depth(k)
      BY <1>4, <2>3, <3>1, InsideIsDeeper
    <3>. QED  BY <2>4, <3>2
  <2>5. after \in Searched(f, base, f[q].needs)
    <3>. HIDE DEF base
    <3>. QED  BY <2>1, <2>2, <2>3, <2>4, LoopSearches
  <2>6. done = [after EXCEPT !.visiting = @ \ {q}, !.visited = @ \union {q}]
    BY <1>4 DEF StepOf, Entered
  <2>. HIDE DEF base, after
  <2>7. /\ after \in Walk /\ after.visiting = w.visiting \union {q}
        /\ w.visited \subseteq after.visited /\ (w.cycle => after.cycle)
        /\ Sound(f, after) /\ (~after.cycle => f[q].needs \subseteq after.visited)
    BY <2>1, <2>5 DEF Searched
  <2>8. /\ done.visiting = after.visiting \ {q} /\ done.visited = after.visited \union {q}
        /\ done.cycle = after.cycle /\ done \in Walk
    <3>1. after.visiting \ {q} \in SUBSET Package /\ after.visited \union {q} \in SUBSET Package
      BY <1>1, <2>7 DEF Walk
    <3>. QED  BY <2>6, <2>7, <3>1 DEF Walk
  <2>9. done.visiting = w.visiting
    BY <1>4, <2>7, <2>8
  <2>10. q \notin after.visited
    BY <2>7 DEF Sound
  <2>11. ~done.cycle => Grounded(f, done.visited)
    <3>1. after.visited \in SUBSET Package
      BY <2>7 DEF Walk
    <3>. QED  BY <1>1, <2>7, <2>8, <2>10, <3>1, GroundedGrows DEF Sound
  <2>12. done.visited \intersect done.visiting = {}
    BY <1>4, <2>7, <2>8, <2>9 DEF Sound
  <2>13. Sound(f, done)
    BY <2>11, <2>12 DEF Sound
  <2>. HIDE DEF done
  <2>14. Continues(f, q, w, done)
    BY <2>7, <2>8, <2>9, <2>13 DEF Continues
  <2>. QED  BY <2>14 DEF done
<1>. QED  BY <1>2, <1>3, <1>4

\* The search from any package, begun anywhere sound, is right.
LEMMA SearchContinues ==
  ASSUME NEW f \in Files, NEW k \in Calls, Sound(f, k[2])
  PROVE  Continues(f, k[1], k[2], Search(f)[k])
<1>. DEFINE Right(e) == Sound(f, e[2]) => Continues(f, e[1], e[2], Search(f)[e])
            A == {n \in Nat : \A e \in Calls : Depth(e) < n => Right(e)}
<1>1. 0 \in A
  <2>1. \A e \in Calls : ~(Depth(e) < 0)
    BY DepthIsNat
  <2>. QED  BY <2>1
<1>2. ASSUME NEW n \in Nat, n \in A
      PROVE  n + 1 \in A
  <2>1. ASSUME NEW e \in Calls, Depth(e) < n + 1, Sound(f, e[2])
        PROVE  Continues(f, e[1], e[2], Search(f)[e])
    <3>1. ASSUME NEW d \in Calls, Depth(d) < Depth(e), Sound(f, d[2])
          PROVE  Continues(f, d[1], d[2], Search(f)[d])
      <4>1. Depth(d) < n
        BY <2>1, <3>1, DepthIsNat
      <4>. QED  BY <1>2, <3>1, <4>1
    <3>2. Continues(f, e[1], e[2], StepOf(f, Search(f), e))
      BY <2>1, <3>1, StepContinues
    <3>. QED  BY <3>2, SearchExists
  <2>2. n + 1 \in Nat
    OBVIOUS
  <2>. QED  BY <2>1, <2>2
<1>3. Nat \subseteq A
  <2>. HIDE DEF A
  <2>. QED  BY <1>1, <1>2, Induction
<1>4. Depth(k) + 1 \in Nat /\ Depth(k) < Depth(k) + 1
  BY DepthIsNat
<1>5. Right(k)
  <2>. HIDE DEF Right
  <2>. QED  BY <1>3, <1>4
<1>. QED  BY <1>5

\* When the search reports no cycle, every set of packages has one that needs
\* none of the set.
LEMMA SearchFindsCycles ==
  ASSUME NEW f \in Files, ~Cyclic(f)
  PROVE  Grounded(f, Package)
<1>. DEFINE base == [visiting |-> {}, visited |-> {}, cycle |-> FALSE]
<1>1. base \in Walk /\ Sound(f, base)
  BY DEF Walk, Sound, Grounded
<1>2. ASSUME NEW r \in Package, NEW x \in Walk, x.visiting = base.visiting, Sound(f, x)
      PROVE  Continues(f, r, x, Search(f)[<<r, x>>])
  <2>1. <<r, x>> \in Calls /\ <<r, x>>[1] = r /\ <<r, x>>[2] = x
    BY DEF Calls
  <2>. QED  BY <1>2, <2>1, SearchContinues
<1>. DEFINE end == Over(Search(f), base, Package)
<1>3. end \in Searched(f, base, Package)
  <2>. HIDE DEF base
  <2>. QED  BY <1>1, <1>2, LoopSearches
<1>4. ~end.cycle
  BY CyclicIsSearch
<1>. HIDE DEF end, base
<1>5. Package = end.visited
  BY <1>3, <1>4 DEF Searched, Walk
<1>. QED  BY <1>3, <1>4, <1>5 DEF Searched, Sound

\* The search returns where it was, begun anywhere.
LEMMA SearchReturns ==
  ASSUME NEW f \in Files, NEW k \in Calls
  PROVE  Returns(Search(f), k)
<1>. DEFINE A == {n \in Nat : \A e \in Calls : Depth(e) < n => Returns(Search(f), e)}
<1>1. 0 \in A
  <2>1. \A e \in Calls : ~(Depth(e) < 0)
    BY DepthIsNat
  <2>. QED  BY <2>1
<1>2. ASSUME NEW n \in Nat, n \in A
      PROVE  n + 1 \in A
  <2>1. ASSUME NEW e \in Calls, Depth(e) < n + 1
        PROVE  Returns(Search(f), e)
    <3>1. \A d \in Calls : Depth(d) < Depth(e) => Depth(d) < n
      BY <2>1, DepthIsNat
    <3>2. \A d \in Calls : Depth(d) < Depth(e) => Returns(Search(f), d)
      BY <1>2, <3>1
    <3>. QED  BY <3>2, StepReturns, SearchExists DEF Returns
  <2>2. n + 1 \in Nat
    OBVIOUS
  <2>. QED  BY <2>1, <2>2
<1>3. Nat \subseteq A
  <2>. HIDE DEF A
  <2>. QED  BY <1>1, <1>2, Induction
<1>4. Depth(k) + 1 \in Nat /\ Depth(k) < Depth(k) + 1
  BY DepthIsNat
<1>. QED  BY <1>3, <1>4

\* Each package being visited names another one, or the one visit is called with.
Linked(f, k) ==
    \A p \in k[2].visiting : f[p].needs \intersect (k[2].visiting \union {k[1]}) # {}

\* A cycle is reported only if there is one.
Truthful(f, w) == w.cycle => ~Grounded(f, Package)

\* One step reports no cycle that is not there if the deeper searches report none:
\* a package found again among those being visited closes a ring of them.
LEMMA StepIsTruthful ==
  ASSUME NEW f \in Files, NEW k \in Calls, Linked(f, k), Truthful(f, k[2]), NEW g,
         \A e \in Calls : Returns(g, e),
         \A e \in Calls : Depth(e) < Depth(k) /\ Linked(f, e) /\ Truthful(f, e[2])
                             => Truthful(f, g[e])
  PROVE  Truthful(f, StepOf(f, g, k))
<1>. DEFINE q == k[1]  w == k[2]
<1>1. q \in Package /\ w \in Walk
  BY DEF Calls
<1>2. CASE q \in w.visiting
  <2>1. w.visiting \in SUBSET Package /\ w.visiting # {}
    BY <1>1, <1>2 DEF Walk
  <2>2. \A p \in w.visiting : f[p].needs \intersect w.visiting # {}
    BY <1>2 DEF Linked
  <2>. QED  BY <2>1, <2>2 DEF Truthful, Grounded
<1>3. CASE q \notin w.visiting /\ q \in w.visited
  BY <1>3 DEF StepOf
<1>4. CASE q \notin w.visiting /\ q \notin w.visited
  <2>. DEFINE base == Entered(k)  after == Over(g, base, f[q].needs)
              I == {x \in Inside(k) : Truthful(f, x)}
  <2>1. base \in I
    <3>1. base.cycle = w.cycle
      BY <1>1 DEF Entered, Walk
    <3>. QED  BY <3>1, EnteredIsInside DEF Truthful
  <2>2. f[q].needs \in SUBSET Package /\ IsFiniteSet(f[q].needs)
    BY <1>1, NeedsAreFinite
  <2>3. ASSUME NEW r \in f[q].needs, NEW x \in I
        PROVE  g[<<r, x>>] \in I
    <3>1. x \in Inside(k) /\ x.visiting = w.visiting \union {q}
      BY DEF Inside
    <3>. DEFINE e == <<r, x>>
    <3>2. e \in Calls /\ Depth(e) < Depth(k) /\ e[1] = r /\ e[2] = x
      BY <1>4, <2>2, <3>1, InsideIsDeeper
    <3>. HIDE DEF e
    <3>3. Linked(f, e)
      <4>1. ASSUME NEW p \in w.visiting
            PROVE  f[p].needs \intersect (w.visiting \union {q}) # {}
        BY DEF Linked
      <4>2. r \in f[q].needs
        OBVIOUS
      <4>. QED  BY <3>1, <3>2, <4>1, <4>2 DEF Linked
    <3>4. Truthful(f, g[e]) /\ Returns(g, e)
      BY <3>2, <3>3
    <3>5. g[e] \in Inside(k)
      BY <3>1, <3>2, <3>4 DEF Returns, Inside
    <3>. QED  BY <3>4, <3>5 DEF e
  <2>4. after \in I
    <3>. HIDE DEF base, I
    <3>. QED  BY <2>1, <2>2, <2>3, FoldKeeps
  <2>5. StepOf(f, g, k) = [after EXCEPT !.visiting = @ \ {q}, !.visited = @ \union {q}]
    BY <1>4 DEF StepOf, Entered
  <2>. HIDE DEF after
  <2>6. StepOf(f, g, k).cycle = after.cycle
    BY <2>4, <2>5 DEF Inside, Walk
  <2>. QED  BY <2>4, <2>6 DEF Truthful
<1>. QED  BY <1>2, <1>3, <1>4

LEMMA SearchIsTruthful ==
  ASSUME NEW f \in Files, NEW k \in Calls, Linked(f, k), Truthful(f, k[2])
  PROVE  Truthful(f, Search(f)[k])
<1>. DEFINE Right(e) == Linked(f, e) /\ Truthful(f, e[2]) => Truthful(f, Search(f)[e])
            A == {n \in Nat : \A e \in Calls : Depth(e) < n => Right(e)}
<1>1. 0 \in A
  <2>1. \A e \in Calls : ~(Depth(e) < 0)
    BY DepthIsNat
  <2>. QED  BY <2>1
<1>2. ASSUME NEW n \in Nat, n \in A
      PROVE  n + 1 \in A
  <2>1. ASSUME NEW e \in Calls, Depth(e) < n + 1, Linked(f, e), Truthful(f, e[2])
        PROVE  Truthful(f, Search(f)[e])
    <3>1. ASSUME NEW d \in Calls, Depth(d) < Depth(e), Linked(f, d), Truthful(f, d[2])
          PROVE  Truthful(f, Search(f)[d])
      <4>1. Depth(d) < n
        BY <2>1, <3>1, DepthIsNat
      <4>. QED  BY <1>2, <3>1, <4>1
    <3>2. Truthful(f, StepOf(f, Search(f), e))
      BY <2>1, <3>1, SearchReturns, StepIsTruthful
    <3>. QED  BY <3>2, SearchExists
  <2>2. n + 1 \in Nat
    OBVIOUS
  <2>. QED  BY <2>1, <2>2
<1>3. Nat \subseteq A
  <2>. HIDE DEF A
  <2>. QED  BY <1>1, <1>2, Induction
<1>4. Depth(k) + 1 \in Nat /\ Depth(k) < Depth(k) + 1
  BY DepthIsNat
<1>5. Right(k)
  <2>. HIDE DEF Right
  <2>. QED  BY <1>3, <1>4
<1>. QED  BY <1>5

\* validate reports a cycle exactly when there is one: packages each of which
\* names another of them.  That is for any finite set of packages and whatever
\* they name.
THEOREM SearchIsExact ==
  ASSUME NEW f \in Files
  PROVE  Cyclic(f) <=> \E T \in SUBSET Package : T # {} /\ \A p \in T : f[p].needs \intersect T # {}
<1>1. ~Cyclic(f) => Grounded(f, Package)
  BY SearchFindsCycles
<1>. DEFINE base == [visiting |-> {}, visited |-> {}, cycle |-> FALSE]
            I == {x \in Walk : x.visiting = {} /\ Truthful(f, x)}
<1>2. base \in I
  BY DEF Walk, Truthful
<1>3. ASSUME NEW r \in Package, NEW x \in I
      PROVE  Search(f)[<<r, x>>] \in I
  <2>. DEFINE e == <<r, x>>
  <2>1. e \in Calls /\ e[2] = x /\ x.visiting = {} /\ Truthful(f, x)
    BY DEF Calls
  <2>. HIDE DEF e
  <2>2. Linked(f, e)
    BY <2>1 DEF Linked
  <2>3. Truthful(f, Search(f)[e]) /\ Returns(Search(f), e)
    BY <2>1, <2>2, SearchIsTruthful, SearchReturns
  <2>4. Search(f)[e] \in I
    BY <2>1, <2>3 DEF Returns
  <2>. QED  BY <2>4 DEF e
<1>4. Over(Search(f), base, Package) \in I
  <2>. HIDE DEF base, I
  <2>. QED  BY <1>2, <1>3, PackageAssumption, FoldKeeps
<1>5. Cyclic(f) = Over(Search(f), base, Package).cycle
  BY CyclicIsSearch
<1>6. Cyclic(f) => ~Grounded(f, Package)
  <2>. HIDE DEF base
  <2>. QED  BY <1>4, <1>5 DEF Truthful
<1>7. \A p \in Package : f[p].needs \subseteq Package
  BY NeedsAreFinite
<1>. QED  BY <1>1, <1>6, <1>7 DEF Grounded

\* A tree that validate passes leaves no learner stuck: the packages served but
\* not yet mastered are a set as above, and the one that needs none of them is
\* next (the prerequisites of what is served are served).
THEOREM LearnerGoesOn == ContentSpec => []LearnerIsNeverStuck
<1>1. TypeInv => LearnerIsNeverStuck
  <2>. SUFFICES ASSUME TypeInv, ledger # Torn, Clean(ledger, file),
                       NEW mastered \in SUBSET Reviewed(ledger, file),
                       mastered # Reviewed(ledger, file)
                PROVE  Recommended(Reviewed(ledger, file), file, mastered) # {}
    BY DEF LearnerIsNeverStuck
  <2>. DEFINE served == Reviewed(ledger, file)  left == served \ mastered
  <2>1. file \in Files /\ ~Cyclic(file)
    BY DEF TypeInv, ContentTypeOK, Clean
  <2>2. Grounded(file, Package)
    BY <2>1, SearchFindsCycles
  <2>3. left \in SUBSET Package /\ left # {}
    BY DEF Reviewed
  <2>4. PICK p \in left : file[p].needs \intersect left = {}
    BY <2>2, <2>3 DEF Grounded
  <2>5. file[p].needs \subseteq served
    BY <2>4 DEF Clean
  <2>6. p \in served \ mastered /\ file[p].needs \subseteq mastered
    BY <2>4, <2>5
  <2>. HIDE DEF served, left
  <2>. QED  BY <2>6 DEF Recommended, served
<1>2. ContentSpec => []TypeInv
  BY TypeInit, TypeStep, PTL DEF ContentSpec
<1>. QED  BY <1>1, <1>2, PTL

=============================================================================
