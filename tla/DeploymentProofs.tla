-------------------------- MODULE DeploymentProofs --------------------------
(***************************************************************************)
(* Proofs about the preview host, for any releases and any numbering of    *)
(* their migrations.                                                       *)
(***************************************************************************)
EXTENDS Deployment, TLAPS

Before == {"migrate", "record", "switch"}        \* of a promotion: the link is as found
After  == {"mark", "restart", "probe", "trap"}   \* the link names the new release
Undo   == {"undo_restart", "undo_probe"}
Steps  == Before \union After \union {"trap_restart"}

Covered(r) == r \in Release => Migration[r] <= schema

\* The database serves every release that something may still start.
SchemaInv ==
    /\ Covered(link) /\ Covered(recorded)
    /\ \A s \in Service : Covered(service[s])
    /\ script.pc \in Steps => Covered(script.previous)
    /\ script.pc \in {"record", "switch"} => Covered(script.release)

\* What a script knows of the link.
LinkInv ==
    /\ script.pc \in Before => script.previous = Resolved(link)
    /\ script.pc \in After => link = script.release
    /\ script.pc \in After /\ promoted => script.previous \in Release

\* A script that has moved the link leaves the host unsettled up to its end, and
\* comes to its probe by a restart that went through.
SettledInv ==
    /\ ServicesAgree
    /\ script.pc \in After \union Undo \union {"trap_restart"} => ~settled
    /\ script.pc \in {"probe", "undo_probe"} => \A s \in Service : service[s] \in {link, Nothing}

HostInv == TypeOK /\ SchemaInv /\ LinkInv /\ SettledInv /\ PromotedStaysServed

USE MigrationAssumption, NamesAssumption

\* The script is known by its program counter.
LEMMA ScriptShape ==
    ASSUME TypeOK
    PROVE  /\ script.pc \in Steps => script \in Promotion
           /\ script.pc = "idle" <=> script = NoScript
           /\ script.pc \in Undo => script = [pc |-> script.pc]
           /\ script.pc \in Steps \union Undo \union {"idle"}
  <1> USE DEF Steps, Before, After, Undo
  <1>1. CASE script = NoScript
    BY <1>1 DEF NoScript
  <1>2. CASE script \in Promotion
    <2>1. script.pc \in Steps
      BY <1>2 DEF Promotion
    <2>2. script.pc # NoScript.pc
      BY <2>1 DEF NoScript
    <2> QED BY <1>2, <2>1, <2>2 DEF NoScript
  <1>3. CASE script \in Rollback
    <2>1. script.pc \in Undo
      BY <1>3 DEF Rollback
    <2>2. script.pc # NoScript.pc
      BY <2>1 DEF NoScript
    <2>3. script = [pc |-> script.pc]
      BY <1>3 DEF Rollback
    <2> QED BY <2>1, <2>2, <2>3 DEF NoScript
  <1> QED BY <1>1, <1>2, <1>3 DEF TypeOK

\* A promotion that goes on keeps what it is about.
LEMMA GotoType ==
    ASSUME TypeOK, script.pc \in Steps, NEW pc \in Steps, Goto(pc)
    PROVE  /\ script' \in Promotion
           /\ script'.pc = pc
           /\ script'.release = script.release
           /\ script'.previous = script.previous
           /\ script'.release \in Release
           /\ script'.previous \in Release \union {Nothing, Itself}
  BY ScriptShape DEF Goto, Promotion, Steps, Before, After

\* Whatever comes up after a restart runs the linked release.
LEMMA RestartedRuns ==
    ASSUME TypeOK, service' \in Restarted
    PROVE  /\ service' \in [Service -> Release \union {Nothing}]
           /\ \A s \in Service : service'[s] \in {link, Nothing}
  BY DEF TypeOK, Restarted, Linked

\* After a restart that failed a service may also run what it ran.
LEMMA RestartFailedRuns ==
    ASSUME TypeOK, service' \in RestartFailed
    PROVE  /\ service' \in [Service -> Release \union {Nothing}]
           /\ \A s \in Service : service'[s] \in {service[s], link, Nothing}
  BY DEF TypeOK, RestartFailed, Linked

LEMMA HostInit == Init => HostInv
  <1> SUFFICES ASSUME Init PROVE HostInv
    OBVIOUS
  <1>1. script = NoScript /\ script.pc = "idle"
    BY DEF Init, NoScript
  <1>2. TypeOK
    BY DEF Init, TypeOK
  <1>3. SchemaInv
    BY <1>1 DEF Init, SchemaInv, Covered, Steps, Before, After
  <1>4. LinkInv /\ SettledInv /\ PromotedStaysServed
    BY <1>1 DEF Init, LinkInv, SettledInv, ServicesAgree, PromotedStaysServed, Before, After, Undo
  <1> QED BY <1>2, <1>3, <1>4 DEF HostInv

\* A step by which no script moves: the link stays, and services keep their
\* release, stop, or start the linked one.
LEMMA HostServices ==
    ASSUME HostInv, (\E s \in Service : Fails(s) \/ Starts(s)) \/ HostStops
    PROVE  HostInv'
  <1> USE DEF HostInv
  <1>1. CASE \E s \in Service : Fails(s) \/ Starts(s)
    <2>1. PICK s \in Service : Fails(s) \/ Starts(s)
      BY <1>1
    <2>2. /\ TypeOK'
          /\ \A t \in Service : service'[t] \in {service[t], link, Nothing}
      BY <2>1 DEF Fails, Starts, TypeOK
    <2>3. UNCHANGED <<link, recorded, schema, script, promoted, settled>>
      BY <2>1 DEF Fails, Starts
    <2> QED BY <2>2, <2>3
            DEF SchemaInv, LinkInv, SettledInv, ServicesAgree, PromotedStaysServed, Covered, Resolved
  <1>2. CASE HostStops
    BY <1>2 DEF HostStops, TypeOK, SchemaInv, LinkInv, SettledInv, ServicesAgree,
                PromotedStaysServed, Covered, NoScript, Steps, Before, After, Undo
  <1> QED BY <1>1, <1>2

LEMMA HostRollback ==
    ASSUME HostInv, StartRollback \/ RestartBack \/ EndRollback
    PROVE  HostInv'
  <1> USE DEF HostInv, Steps, Before, After, Undo
  <1>1. CASE StartRollback
    <2>1. script' \in Rollback /\ script'.pc = "undo_restart"
      BY <1>1 DEF StartRollback, Rollback
    <2> QED BY <1>1, <2>1 DEF StartRollback, TypeOK, SchemaInv, LinkInv, SettledInv,
                ServicesAgree, PromotedStaysServed, Covered
  <1>2. CASE RestartBack
    <2>1. script = [pc |-> "undo_restart"] /\ script' = [pc |-> "undo_probe"]
      BY <1>2, ScriptShape DEF RestartBack, Goto
    <2>2. TypeOK'
      BY <1>2, <2>1, RestartedRuns DEF RestartBack, TypeOK, Rollback
    <2> QED BY <1>2, <2>1, <2>2, RestartedRuns
            DEF RestartBack, SchemaInv, LinkInv, SettledInv, ServicesAgree,
                PromotedStaysServed, Covered
  <1>3. CASE EndRollback
    BY <1>3 DEF EndRollback, TypeOK, SchemaInv, LinkInv, SettledInv, ServicesAgree,
                PromotedStaysServed, Covered, NoScript
  <1> QED BY <1>1, <1>2, <1>3

\* The script dies; its current command may have had its effect or a part of it.
LEMMA HostDies ==
    ASSUME HostInv, Dies
    PROVE  HostInv'
  <1> USE DEF HostInv
  <1>1. script' = NoScript /\ script'.pc = "idle" /\ UNCHANGED <<link, recorded, promoted, settled>>
    BY DEF Dies, NoScript
  <1>2. schema' \in Nat /\ schema <= schema'
    <2>1. CASE schema' = schema
      BY <2>1 DEF TypeOK
    <2>2. CASE schema' # schema
      <3>1. script.pc = "migrate" /\ schema <= Migration[script.release]
              /\ schema' = Migration[script.release]
        BY <2>2 DEF Dies, PartlyMigrated
      <3>2. script.release \in Release
        BY <3>1, ScriptShape DEF Promotion, Steps, Before
      <3> QED BY <3>1, <3>2
    <2> QED BY <2>1, <2>2
  <1>3. /\ service' \in [Service -> Release \union {Nothing}]
        /\ \A s \in Service : service'[s] \in {service[s], link, Nothing}
    <2>1. CASE service' = service
      BY <2>1 DEF TypeOK
    <2>2. CASE service' \in RestartFailed
      BY <2>2, RestartFailedRuns
    <2> QED BY <2>1, <2>2 DEF Dies, PartlyRestarted
  <1>4. TypeOK'
    BY <1>1, <1>2, <1>3 DEF TypeOK
  <1>5. \A r \in Release : Migration[r] <= schema => Migration[r] <= schema'
    BY <1>2 DEF TypeOK
  <1>6. SchemaInv'
    BY <1>1, <1>3, <1>5 DEF SchemaInv, Covered, TypeOK, Steps, Before, After
  <1>7. LinkInv' /\ SettledInv' /\ PromotedStaysServed'
    BY <1>1, <1>3
       DEF LinkInv, SettledInv, ServicesAgree, PromotedStaysServed, Before, After, Undo
  <1> QED BY <1>4, <1>6, <1>7

LEMMA HostPromote ==
    ASSUME HostInv, Promote
    PROVE  HostInv'
  <1> USE DEF HostInv, Steps, Before, After, Undo
  <1>1. CASE \E r \in Release : StartPromotion(r)
    <2>1. PICK r \in Release : StartPromotion(r)
      BY <1>1
    <2>2. Resolved(link) \in Release \union {Nothing, Itself}
      BY DEF TypeOK, Resolved
    <2>3. script' \in Promotion /\ script'.pc = "migrate" /\ script'.previous = Resolved(link)
      BY <2>1, <2>2 DEF StartPromotion, Promotion
    <2>4. Resolved(link) \in Release => Resolved(link) = link
      BY DEF TypeOK, Resolved
    <2> QED BY <2>1, <2>3, <2>4
            DEF StartPromotion, TypeOK, SchemaInv, LinkInv, SettledInv, ServicesAgree,
                PromotedStaysServed, Covered, Resolved
  <1>2. CASE Migrate
    <2>1. script' \in Promotion /\ script'.pc = "record" /\ script'.release = script.release
            /\ script'.previous = script.previous
      BY <1>2, GotoType DEF Migrate
    <2>2. script.release \in Release /\ schema \in Nat /\ schema' \in Nat /\ schema <= schema'
      BY <1>2, ScriptShape DEF Migrate, TypeOK, Promotion
    <2>3. \A r \in Release : Migration[r] <= schema => Migration[r] <= schema'
      BY <2>2
    <2> QED BY <1>2, <2>1, <2>2, <2>3
            DEF Migrate, TypeOK, SchemaInv, LinkInv, SettledInv, ServicesAgree,
                PromotedStaysServed, Covered, Resolved
  <1>3. CASE Record
    <2>1. script' \in Promotion /\ script'.pc = "switch" /\ script'.release = script.release
            /\ script'.previous = script.previous
            /\ script.previous \in Release \union {Nothing, Itself}
      BY <1>3, GotoType DEF Record
    <2> QED BY <1>3, <2>1
            DEF Record, TypeOK, SchemaInv, LinkInv, SettledInv, ServicesAgree,
                PromotedStaysServed, Covered, Resolved
  <1>4. CASE Switch
    <2>1. script' \in Promotion /\ script'.pc = "mark" /\ script'.release = script.release
            /\ script'.previous = script.previous /\ script.release \in Release
      BY <1>4, GotoType DEF Switch
    <2>2. link \in Release => script.previous = link
      BY <1>4 DEF Switch, LinkInv, Resolved
    <2> QED BY <1>4, <2>1, <2>2
            DEF Switch, TypeOK, SchemaInv, LinkInv, SettledInv, ServicesAgree,
                PromotedStaysServed, Covered
  <1>5. CASE Mark
    <2>1. script' \in Promotion /\ script'.pc = "restart" /\ script'.release = script.release
            /\ script'.previous = script.previous
      BY <1>5, GotoType DEF Mark
    <2> QED BY <1>5, <2>1
            DEF Mark, TypeOK, SchemaInv, LinkInv, SettledInv, ServicesAgree,
                PromotedStaysServed, Covered
  <1>6. CASE Restart
    <2>1. script' \in Promotion /\ script'.pc = "probe" /\ script'.release = script.release
            /\ script'.previous = script.previous
      BY <1>6, GotoType DEF Restart
    <2> QED BY <1>6, <2>1, RestartedRuns
            DEF Restart, TypeOK, SchemaInv, LinkInv, SettledInv, ServicesAgree,
                PromotedStaysServed, Covered
  <1>7. CASE Probe
    <2>1. script.release \in Release /\ link = script.release
      BY <1>7, ScriptShape DEF Probe, Promotion, LinkInv
    <2> QED BY <1>7, <2>1
            DEF Probe, TypeOK, SchemaInv, LinkInv, SettledInv, ServicesAgree,
                PromotedStaysServed, Covered, NoScript
  <1>8. CASE AbortSwitched
    <2>1. script' \in Promotion /\ script'.pc = "trap" /\ script'.release = script.release
            /\ script'.previous = script.previous
      BY <1>8, GotoType DEF AbortSwitched
    <2>2. /\ service' \in [Service -> Release \union {Nothing}]
          /\ \A s \in Service : service'[s] \in {service[s], link, Nothing}
      <3>1. CASE service' = service
        BY <3>1 DEF TypeOK
      <3>2. CASE service' \in RestartFailed
        BY <3>2, RestartFailedRuns
      <3> QED BY <1>8, <3>1, <3>2 DEF AbortSwitched
    <2> QED BY <1>8, <2>1, <2>2
            DEF AbortSwitched, TypeOK, SchemaInv, LinkInv, SettledInv, ServicesAgree,
                PromotedStaysServed, Covered
  <1>9. CASE Restore
    <2>1. script' \in Promotion /\ script'.pc = "trap_restart" /\ script'.release = script.release
            /\ script'.previous = script.previous
            /\ script.previous \in Release \union {Nothing, Itself}
      BY <1>9, GotoType DEF Restore
    <2> QED BY <1>9, <2>1
            DEF Restore, TypeOK, SchemaInv, LinkInv, SettledInv, ServicesAgree,
                PromotedStaysServed, Covered
  <1>10. CASE RestartRestored
    <2>1. script' = NoScript /\ script'.pc = "idle" /\ UNCHANGED <<link, recorded, schema, promoted>>
      BY <1>10 DEF RestartRestored, NoScript
    <2>2. /\ service' \in [Service -> Release \union {Nothing}]
          /\ \A s \in Service : service'[s] \in {service[s], link, Nothing}
      BY <1>10, RestartedRuns, RestartFailedRuns DEF RestartRestored
    <2>3. SettledInv'
      BY <1>10, <2>1, RestartedRuns DEF RestartRestored, SettledInv, ServicesAgree
    <2>4. TypeOK'
      BY <1>10, <2>1, <2>2 DEF RestartRestored, TypeOK
    <2> QED BY <2>1, <2>2, <2>3, <2>4 DEF SchemaInv, LinkInv, PromotedStaysServed, Covered
  <1>11. CASE GiveUp
    BY <1>11 DEF GiveUp, TypeOK, SchemaInv, LinkInv, SettledInv, ServicesAgree,
                 PromotedStaysServed, Covered, NoScript
  <1> QED BY <1>1, <1>2, <1>3, <1>4, <1>5, <1>6, <1>7, <1>8, <1>9, <1>10, <1>11 DEF Promote

LEMMA HostInductive == Spec => []HostInv
  <1>1. HostInv /\ [Next]_hostVars => HostInv'
    <2>1. CASE Next
      BY <2>1, HostServices, HostRollback, HostDies, HostPromote DEF Next
    <2>2. CASE UNCHANGED hostVars
      <3>1. TypeOK' = TypeOK /\ PromotedStaysServed' = PromotedStaysServed
        BY <2>2 DEF hostVars, TypeOK, PromotedStaysServed
      <3>2. SchemaInv' = SchemaInv
        BY <2>2 DEF hostVars, SchemaInv, Covered
      <3>3. LinkInv' = LinkInv /\ SettledInv' = SettledInv
        BY <2>2 DEF hostVars, LinkInv, SettledInv, ServicesAgree, Resolved
      <3> QED BY <3>1, <3>2, <3>3 DEF HostInv
    <2> QED BY <2>1, <2>2
  <1> QED BY <1>1, HostInit, PTL DEF Spec

-----------------------------------------------------------------------------
\* The type invariant of the host, whatever scripts, services and crashes do.
THEOREM HostTypeCorrect == Spec => []TypeOK
  <1>1. HostInv => TypeOK
    BY DEF HostInv
  <1> QED BY <1>1, HostInductive, PTL

\* promote.sh migrates before it switches and nothing ever downgrades the
\* database: no service runs code whose migrations are missing.
THEOREM SchemaIsSufficient == Spec => []SchemaCoversCode
  <1>1. HostInv => SchemaCoversCode
    BY DEF HostInv, SchemaInv, SchemaCoversCode, Covered
  <1> QED BY <1>1, HostInductive, PTL

\* A script that moved the link and ended with 0, and a trap that saw its restart
\* through, leave both services on the linked release or down, through any
\* failures and deaths of scripts before, and up to the next move of the link.
THEOREM ServicesFollowLink == Spec => []ServicesAgree
  <1>1. HostInv => ServicesAgree
    BY DEF HostInv, SettledInv
  <1> QED BY <1>1, HostInductive, PTL

\* After the first success of promote.sh the trap always has a release to
\* restore, and rollback.sh one to go back to or nothing to do.
THEOREM LinkStaysServed == Spec => []PromotedStaysServed
  <1>1. HostInv => PromotedStaysServed
    BY DEF HostInv
  <1> QED BY <1>1, HostInductive, PTL

=============================================================================
