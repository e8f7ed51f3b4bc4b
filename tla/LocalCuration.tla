---------------------------- MODULE LocalCuration ----------------------------
(***************************************************************************)
(* The nightly curator and the background maintenance over the pages of    *)
(* one local store, with the other agents that write them.  The setting    *)
(* says which of the parts a behaviour runs.                               *)
(***************************************************************************)
EXTENDS LocalCurator, LocalAutomation

vars == <<setting, pageVars, curatorVars, automationVars>>

TypeOK == PagesTypeOK /\ CuratorTypeOK /\ AutomationTypeOK

Init ==
  /\ setting \in Settings
  /\ PagesInit /\ CuratorInit /\ AutomationInit

Runs(part) == part \in setting.parts /\ UNCHANGED setting

Curates   == Runs("curator") /\ CuratorNext /\ UNCHANGED automationVars
Automates == Runs("automation") /\ AutomationNext /\ UNCHANGED curatorVars
Writes    == AgentWrite /\ UNCHANGED <<setting, curatorVars, automationVars>>

Next == Curates \/ Automates \/ Writes

(* The nightly curator is started again and again, what runs goes on, and  *)
(* a model that is asked for ever answers at last.  Each background loop   *)
(* polls for ever; fairness does not count on finding its own lease.       *)
Fairness ==
  /\ SF_vars(Runs("curator") /\ Ask(Nightly) /\ UNCHANGED automationVars)
  /\ \A c \in Curators :
       WF_vars(Runs("curator") /\ CuratorStep(c) /\ (c = Nightly \/ curator[c].pc # "idle")
               /\ UNCHANGED automationVars)
  /\ WF_vars(Runs("automation") /\ Tick /\ UNCHANGED curatorVars)
  /\ \A r \in Runners :
       WF_vars(/\ Runs("automation") /\ UNCHANGED curatorVars
               /\ (Poll(r) /\ lease = Free /\ r \in setting.runners) \/ Cycle(r))
  /\ \A r \in Runners \cup {Operator} :
       WF_vars(Runs("automation") /\ Maintain(r) /\ UNCHANGED curatorVars)

Spec == Init /\ [][Next]_vars /\ Fairness
=============================================================================
