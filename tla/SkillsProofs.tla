----------------------------- MODULE SkillsProofs -----------------------------
(***************************************************************************)
(* Theorems about Skills, for every code base and every way the pages are  *)
(* written beside an extraction.  What Extraction and ExtractedCode        *)
(* promise holds here too, for a page reads the graph and leaves it alone  *)
(* (SkillsOnlyRead); the invariants say what an agent has read, what its   *)
(* pages tell, and which pages are there.                                  *)
(***************************************************************************)
EXTENDS Skills, ExtractedCodeProofs

USE CodeAssumption DEF CodeAssumption

(* generate-skills only reads the graph (skills/*.py ask the store for     *)
(* nodes, edges and neighbours): what happens to the store beside it is    *)
(* what an extraction does.                                                *)
THEOREM SkillsOnlyRead == SkillsSpec => Spec
<1>1. [SkillsNext]_allVars => [Next]_vars
  BY DEF SkillsNext, allVars
<1> QED
  BY <1>1, PTL DEF SkillsSpec, Spec

-----------------------------------------------------------------------------
(* The agents and what they read.                                          *)

LEMMA AgentNumbers ==
    /\ DOMAIN Agents = 1 .. 8 /\ Len(Agents) = 8
    /\ Agents[1] = "migration" /\ Agents[2] = "patterns" /\ Agents[3] = "dependency"
    /\ Agents[4] = "copybook" /\ Agents[5] = "workflow" /\ Agents[6] = "risk"
    /\ Agents[7] = "tests" /\ Agents[8] = "history"
  BY DEF Agents

LEMMA WorkingIs == Working <=> agent \in 1 .. 8
  BY AgentNumbers DEF Working

AgentNames == {"migration", "patterns", "dependency", "copybook", "workflow", "risk", "tests", "history"}

LEMMA NameOf ==
    ASSUME NEW a \in 1 .. 8
    PROVE  /\ Agents[a] \in AgentNames
           /\ Agents[a] = "migration" <=> a = 1
           /\ Agents[a] = "patterns" <=> a = 2
           /\ Agents[a] = "dependency" <=> a = 3
           /\ Agents[a] = "copybook" <=> a = 4
           /\ Agents[a] = "workflow" <=> a = 5
           /\ Agents[a] = "risk" <=> a = 6
<1>1. a = 1 \/ a = 2 \/ a = 3 \/ a = 4 \/ a = 5 \/ a = 6 \/ a = 7 \/ a = 8
  OBVIOUS
<1> QED
  BY <1>1, AgentNumbers DEF AgentNames

(* The statements of each agent.                                           *)
LEMMA ReadsAre ==
    /\ Len(Reads["migration"]) = 1 /\ Reads["migration"][1] = {"Program"}
    /\ Len(Reads["patterns"]) = 4
    /\ Reads["patterns"][1] = {"Paragraph", "tangled"} /\ Reads["patterns"][2] = {"Program"}
    /\ Reads["patterns"][3] = {"PERFORMS"} /\ Reads["patterns"][4] = {"CALLS"}
    /\ Len(Reads["dependency"]) = 2
    /\ Reads["dependency"][1] = {"Program"} /\ Reads["dependency"][2] = {"link"}
    /\ Len(Reads["copybook"]) = 4
    /\ Reads["copybook"][1] = {"Copybook"} /\ Reads["copybook"][2] = {"Field"}
    /\ Reads["copybook"][3] = {"DERIVED_FROM"} /\ Reads["copybook"][4] = {"INCLUDES"}
    /\ Len(Reads["workflow"]) = 1 /\ Reads["workflow"][1] = {"JCLJob"}
    /\ Len(Reads["risk"]) = 0 /\ Len(Reads["tests"]) = 0 /\ Len(Reads["history"]) = 0
  BY DEF Reads

LEMMA ReadsLength ==
    ASSUME NEW n \in AgentNames
    PROVE  Len(Reads[n]) \in 0 .. 4 /\ DOMAIN Reads[n] = 1 .. Len(Reads[n])
<1>1. \/ n = "migration" \/ n = "patterns" \/ n = "dependency" \/ n = "copybook"
      \/ n = "workflow" \/ n = "risk" \/ n = "tests" \/ n = "history"
  BY DEF AgentNames
<1>2. DOMAIN Reads[n] = 1 .. Len(Reads[n])
  BY DEF Reads, AgentNames
<1> QED
  BY <1>1, <1>2, ReadsAre

-----------------------------------------------------------------------------
(* Types.                                                                  *)

SkillsType ==
    /\ SkillsTypeOK
    /\ skillRuns \in Nat
    /\ IsSequence(pages) /\ (Writing => pages # << >>)

LEMMA NothingDomain == DOMAIN NothingRead = Kinds
  BY DEF NothingRead

(* The next agent, or none.                                                *)
LEMMA EnterType ==
    ASSUME SkillsType, NEW a \in 0 .. 9, Enter(a),
           \A x \in DOMAIN disk' : disk'[x].path = x,
           skillRuns' \in Nat, manifest'.run \in 0 .. skillRuns'
    PROVE  SkillsType'
<1> USE DEF SkillsType, SkillsTypeOK, Enter, OnDisk
<1>1. IsSequence(pages')
  BY NoneOf
<1>2. agent' \in 0 .. Len(Agents) + 1
  BY AgentNumbers
<1>3. (Working => step \in 1 .. Len(Reads[Name]) + 2)' /\ ~Writing'
  <2> SUFFICES ASSUME Working' PROVE Len(Reads[Agents[agent']]) \in Nat
    BY DEF Name, Writing
  <2>1. agent' \in 1 .. 8
    BY AgentNumbers DEF Working
  <2> QED
    BY <2>1, NameOf, ReadsLength
<1> QED
  BY <1>1, <1>2, <1>3, NothingDomain DEF Kinds

(* Pages are appended at the end and written from the front.               *)
LEMMA TailIs ==
    ASSUME NEW s, IsSequence(s), s # << >>
    PROVE  /\ Head(s) \in Range(s) /\ IsSequence(Tail(s)) /\ Range(Tail(s)) \subseteq Range(s)
           /\ \A x \in Range(s) : x = Head(s) \/ x \in Range(Tail(s))
<1> DEFINE S == Range(s)
           t == Tail(s)
<1>1. s \in Seq(S) /\ Len(s) \in Nat /\ DOMAIN s = 1 .. Len(s)
  BY SequenceDomain DEF IsSequence
<1> HIDE DEF S
<1>2. Head(s) = s[1] /\ 1 \in DOMAIN s
  BY <1>1
<1>3. t \in Seq(S) /\ DOMAIN t = 1 .. Len(s) - 1 /\ \A i \in 1 .. Len(s) - 1 : t[i] = s[i + 1]
  <2>1. t \in Seq(S) /\ Len(t) = Len(s) - 1 /\ \A i \in 1 .. Len(t) : t[i] = s[i + 1]
    BY <1>1, HeadTailProperties
  <2> HIDE DEF t
  <2> QED
    BY <2>1
<1>4. IsSequence(t) /\ Range(t) \subseteq S
  BY <1>3, SequenceOf
<1>5. ASSUME NEW i \in DOMAIN s, i # 1
      PROVE  i - 1 \in DOMAIN t /\ t[i - 1] = s[i]
  BY <1>1, <1>3, <1>5
<1> HIDE DEF t
<1>6. \A x \in Range(s) : x = Head(s) \/ x \in Range(t)
  <2> SUFFICES ASSUME NEW i \in DOMAIN s PROVE s[i] = Head(s) \/ s[i] \in Range(t)
    BY DEF Range
  <2> QED
    BY <1>2, <1>5 DEF Range
<1> QED
  BY <1>2, <1>4, <1>6 DEF Range, S, t

LEMMA AppendIs ==
    ASSUME NEW s, IsSequence(s), NEW x
    PROVE  IsSequence(Append(s, x)) /\ Range(Append(s, x)) = Range(s) \cup {x}
<1>1. Append(s, x) = s \o <<x>>
  BY AppendSequence
<1>2. IsSequence(<<x>>) /\ Range(<<x>>) = {x}
  BY OneOf
<1> DEFINE t == <<x>>
<1> HIDE DEF t
<1>3. IsSequence(s \o t) /\ Range(s \o t) = Range(s) \cup Range(t)
  BY <1>2, ConcatSequence DEF t
<1> QED
  BY <1>1, <1>2, <1>3 DEF t

(* What an agent returns last is a page or nothing.                        *)
LEMMA ReportsAre ==
    ASSUME Working
    PROVE  /\ IsSequence(Reports)
           /\ \A page \in Range(Reports) : \E path, rows :
                 /\ page = Page(path, MakeId("Report", path[1], path[2]), {}, {}, rows)
                 /\ path[1] = Name
                 /\ Name = "patterns" => rows = Smells
                 /\ Name \in {"migration", "patterns", "copybook", "risk"}
           /\ Name = "copybook" => \E page \in Range(Reports) : page.path = Overview
           /\ Name = "risk" => \E page \in Range(Reports) : page.path = RiskReport
<1> DEFINE none == << >>
<1>1. CASE Name = "copybook"
  <2>1. Reports = Report(Overview, got["Copybook"])
    BY <1>1 DEF Reports
  <2> QED
    BY <1>1, <2>1, OneOf DEF Report, Page, Overview
<1>2. CASE Name = "risk"
  <2>1. Reports = Report(RiskReport, {})
    BY <1>2 DEF Reports
  <2> QED
    BY <1>2, <2>1, OneOf DEF Report, Page, RiskReport
<1>3. CASE Name = "migration" /\ got["Program"] # {}
  <2>1. Reports = Report(<<"migration", "top-candidates">>, got["Program"])
    BY <1>3 DEF Reports
  <2> QED
    BY <1>3, <2>1, OneOf DEF Report
<1>4. CASE Name = "patterns" /\ (Smells # {} \/ got["tangled"] # {})
  <2>1. Reports = Report(<<"patterns", "report">>, Smells)
    BY <1>4 DEF Reports
  <2> QED
    BY <1>4, <2>1, OneOf DEF Report
<1>5. CASE /\ Name \notin {"copybook", "risk"}
           /\ Name = "migration" => got["Program"] = {}
           /\ Name = "patterns" => Smells = {} /\ got["tangled"] = {}
  <2>1. Reports = none
    BY <1>5 DEF Reports
  <2> QED
    BY <1>5, <2>1, NoneOf
<1> QED
  BY <1>1, <1>2, <1>3, <1>4, <1>5

(* The actions that leave the agent at work.                               *)
LEMMA GoOnType ==
    ASSUME SkillsType, Working, NEW rest, IsSequence(rest), GoOn(rest),
           \A x \in DOMAIN disk' : disk'[x].path = x, UNCHANGED <<manifest, skillRuns>>
    PROVE  SkillsType'
<1>1. agent \in 1 .. 8 /\ agent + 1 \in 0 .. 9
  BY AgentNumbers DEF Working
<1>2. CASE rest = << >>
  <2>1. Enter(agent + 1)
    BY <1>2 DEF GoOn
  <2>2. skillRuns' \in Nat /\ manifest'.run \in 0 .. skillRuns'
    BY DEF SkillsType, SkillsTypeOK
  <2> QED
    BY <1>1, <2>1, <2>2, EnterType
<1>3. CASE rest # << >>
  <2>1. pages' = rest /\ step' = Len(Reads[Name]) + 2 /\ got' = NothingRead /\ agent' = agent
    BY <1>3 DEF GoOn
  <2>2. Len(Reads[Name]) \in Nat /\ Name' = Name
    BY <1>1, <2>1, NameOf, ReadsLength DEF Name
  <2> QED
    BY <1>1, <1>3, <2>1, <2>2, NothingDomain, AgentNumbers DEF SkillsType, SkillsTypeOK, Kinds, Writing
<1> QED
  BY <1>2, <1>3

LEMMA WriteType ==
    ASSUME SkillsType, disk' = On(Head(pages)) \/ CutOff
    PROVE  \A x \in DOMAIN disk' : disk'[x].path = x
  BY DEF SkillsType, SkillsTypeOK, CutOff, On, Emptied, Page

LEMMA SkillsTypeStep ==
    ASSUME SkillsType, [SkillsNext]_allVars
    PROVE  SkillsType'
<1> USE DEF SkillsType, SkillsTypeOK
<1>1. CASE StartSkills
  BY <1>1, EnterType DEF StartSkills
<1>2. CASE ReadNext
  <2>1. Working /\ agent \in 1 .. 8 /\ Name \in AgentNames /\ agent' = agent /\ Name' = Name
    BY <1>2, AgentNumbers, NameOf DEF ReadNext, Reading, Working, Name
  <2>2. Len(Reads[Name]) \in Nat
    BY <2>1, ReadsLength
  <2>3. DOMAIN got' = DOMAIN got
    BY <1>2 DEF ReadNext
  <2>4. step' = step + 1 /\ step' \in 1 .. Len(Reads[Name]) + 1
    BY <1>2, <2>1, <2>2 DEF ReadNext, Reading
  <2>5. ~Writing'
    BY <2>1, <2>2, <2>4 DEF Writing
  <2> QED
    BY <1>2, <2>1, <2>2, <2>3, <2>4, <2>5 DEF ReadNext
<1>3. CASE Draft
  <2>1. Working /\ agent \in 1 .. 8 /\ Name \in AgentNames /\ agent' = agent /\ Name' = Name
    BY <1>3, AgentNumbers, NameOf DEF Draft, Drafting, Working, Name
  <2>2. Len(Reads[Name]) \in Nat
    BY <2>1, ReadsLength
  <2>3. IsSequence(pages')
    BY <1>3, AppendIs DEF Draft
  <2>4. ~Writing'
    BY <1>3, <2>1, <2>2 DEF Draft, Drafting, Writing
  <2> QED
    BY <1>3, <2>1, <2>2, <2>3, <2>4 DEF Draft
<1>4. CASE Return
  <2>1. Working
    BY <1>4 DEF Return, Drafting
  <2>2. IsSequence(pages \o Reports)
    BY <2>1, ReportsAre, ConcatSequence
  <2> QED
    BY <1>4, <2>1, <2>2, GoOnType DEF Return
<1>5. CASE AgentFails
  <2>1. agent \in 1 .. 8 /\ agent + 1 \in 0 .. 9
    BY <1>5, AgentNumbers DEF AgentFails, Reading, Drafting, Working
  <2> QED
    BY <1>5, <2>1, EnterType DEF AgentFails
<1>6. CASE Write \/ WriteFails
  <2>1. Working /\ IsSequence(Tail(pages)) /\ GoOn(Tail(pages))
    BY <1>6, TailIs DEF Write, WriteFails, Writing
  <2> QED
    BY <1>6, <2>1, WriteType, GoOnType DEF Write, WriteFails
<1>7. CASE WriteManifest
  BY <1>7, EnterType DEF WriteManifest
<1>8. CASE SkillsCrash
  <2>1. (\A x \in DOMAIN disk' : disk'[x].path = x) /\ skillRuns' = skillRuns /\ Enter(0)
    BY <1>8, WriteType DEF SkillsCrash
  <2>2. manifest'.run \in 0 .. skillRuns
    BY <1>8 DEF SkillsCrash, NoManifest
  <2> QED
    BY <2>1, <2>2, EnterType
<1>9. CASE UNCHANGED skillVars
  BY <1>9 DEF skillVars, Working, Writing, Name
<1> QED
  BY <1>1, <1>2, <1>3, <1>4, <1>5, <1>6, <1>7, <1>8, <1>9 DEF SkillsNext, SkillStep, allVars

LEMMA SkillsTypeAlways == SkillsSpec => []SkillsType
<1>1. SkillsInit => SkillsType
  BY AgentNumbers, NothingDomain, NoneOf DEF SkillsInit, SkillsType, SkillsTypeOK, NoManifest, Working, Writing
<1> QED
  BY <1>1, SkillsTypeStep, PTL DEF SkillsSpec

(* SkillsTypeOK: an agent at work is at one of its statements, a page is   *)
(* under its own path, and the last manifest is of a run that began.       *)
THEOREM SkillsTypeCorrect == SkillsSpec => []SkillsTypeOK
<1>1. SkillsType => SkillsTypeOK
  BY DEF SkillsType
<1> QED
  BY <1>1, SkillsTypeAlways, PTL

-----------------------------------------------------------------------------
(* Where the pages come from.                                              *)

OnHand == Range(pages) \cup OnDisk

(* An agent has a page for each of its subjects.                           *)
LEMMA PageOfIs ==
    ASSUME Working, NEW s \in Subjects
    PROVE  /\ PageOf(s).of = s /\ PageOf(s).path = PathOf(s) /\ PageOf(s).run = skillRuns
           /\ Name \in {"dependency", "copybook", "workflow"}
           /\ Name = "dependency" => s \in got["Program"] /\ PageOf(s) = ProgramPage(s)
           /\ Name = "copybook" => s \in got["Copybook"] /\ PageOf(s) = CopybookPage(s)
           /\ Name = "workflow" => s \in got["JCLJob"] /\ PageOf(s) = JobPage(s)
<1>1. CASE Name = "dependency"
  <2>1. s \in got["Program"] /\ PageOf(s) = ProgramPage(s)
    BY <1>1 DEF Subjects, PageOf
  <2> QED
    BY <1>1, <2>1 DEF ProgramPage, Page
<1>2. CASE Name = "copybook"
  <2>1. s \in got["Copybook"] /\ PageOf(s) = CopybookPage(s)
    BY <1>2 DEF Subjects, PageOf
  <2> QED
    BY <1>2, <2>1 DEF CopybookPage, Page
<1>3. CASE Name = "workflow"
  <2>1. s \in got["JCLJob"] /\ PageOf(s) = JobPage(s)
    BY <1>3 DEF Subjects, PageOf
  <2> QED
    BY <1>3, <2>1 DEF JobPage, Page
<1> QED
  BY <1>1, <1>2, <1>3 DEF Subjects

LEMMA PagesStep ==
    ASSUME SkillsType, [SkillsNext]_allVars, NEW page \in Range(pages)'
    PROVE  \/ page \in Range(pages) /\ ~StartSkills /\ ~Enter(0)
           \/ Draft /\ \E s \in Subjects \ Drafted : page = PageOf(s)
           \/ Return /\ page \in Range(Reports)
<1>1. ASSUME NEW a, Enter(a) PROVE FALSE
  BY <1>1, NoneOf DEF Enter
<1>2. CASE StartSkills \/ AgentFails \/ WriteManifest \/ SkillsCrash
  BY <1>1, <1>2 DEF StartSkills, AgentFails, WriteManifest, SkillsCrash
<1>3. CASE ReadNext \/ UNCHANGED skillVars
  <2>1. pages' = pages
    BY <1>3 DEF ReadNext, skillVars
  <2> QED
    BY <1>1, <2>1 DEF StartSkills
<1>4. CASE Draft
  <2>1. PICK s \in Subjects \ Drafted : pages' = Append(pages, PageOf(s))
    BY <1>4 DEF Draft
  <2>2. page \in Range(pages) \cup {PageOf(s)}
    BY <2>1, AppendIs DEF SkillsType
  <2> QED
    BY <1>1, <1>4, <2>1, <2>2 DEF StartSkills
<1>5. CASE Return
  <2>1. Working /\ GoOn(pages \o Reports)
    BY <1>5 DEF Return, Drafting
  <2>2. pages' = pages \o Reports
    BY <1>1, <2>1 DEF GoOn
  <2>3. page \in Range(pages) \cup Range(Reports)
    BY <2>1, <2>2, ReportsAre, ConcatSequence DEF SkillsType
  <2> QED
    BY <1>1, <1>5, <2>3 DEF StartSkills
<1>6. CASE Write \/ WriteFails
  <2>1. Writing /\ GoOn(Tail(pages))
    BY <1>6 DEF Write, WriteFails
  <2>2. pages' = Tail(pages)
    BY <1>1, <2>1 DEF GoOn
  <2>3. page \in Range(pages)
    BY <2>1, <2>2, TailIs DEF SkillsType
  <2> QED
    BY <1>1, <2>3 DEF StartSkills
<1> QED
  BY <1>2, <1>3, <1>4, <1>5, <1>6 DEF SkillsNext, SkillStep, allVars

(* A write that is cut off leaves an empty page.                           *)
Cut == Writing /\ (WriteFails \/ SkillsCrash)

LEMMA DiskStep ==
    ASSUME SkillsType, [SkillsNext]_allVars
    PROVE  /\ DOMAIN disk \subseteq DOMAIN disk'
           /\ \A x \in DOMAIN disk' :
                 \/ x \in DOMAIN disk /\ disk'[x] = disk[x] /\ (Write => x # Head(pages).path)
                 \/ Write /\ x = Head(pages).path /\ disk'[x] = Head(pages)
                 \/ Cut /\ ~Write /\ x = Head(pages).path /\ disk'[x] = Emptied(Head(pages))
           /\ Write \/ Cut => Writing /\ Head(pages) \in Range(pages)
           /\ Write => Head(pages).path \in DOMAIN disk'
<1>1. Write \/ Cut => Writing /\ Head(pages) \in Range(pages)
  BY TailIs DEF Write, Cut, SkillsType
<1>2. CASE Write
  BY <1>1, <1>2 DEF Write, On
<1>3. CASE ~Write
  <2>1. disk' = disk \/ (Cut /\ disk' = On(Emptied(Head(pages))))
    BY <1>3 DEF SkillsNext, SkillStep, allVars, skillVars, StartSkills, ReadNext, Draft, Return,
                AgentFails, WriteFails, WriteManifest, SkillsCrash, Cut, CutOff
  <2>2. Emptied(Head(pages)).path = Head(pages).path
    BY DEF Emptied, Page
  <2> QED
    BY <1>1, <1>3, <2>1, <2>2 DEF On
<1> QED
  BY <1>2, <1>3

(* A page that is there in the next state was there, or has been made, or  *)
(* emptied.                                                                *)
LEMMA OnHandStep ==
    ASSUME SkillsType, [SkillsNext]_allVars, NEW page \in OnHand'
    PROVE  \/ page \in OnHand
           \/ Draft /\ \E s \in Subjects \ Drafted : page = PageOf(s)
           \/ Return /\ page \in Range(Reports)
           \/ page = Emptied(Head(pages))
<1>1. CASE page \in Range(pages)'
  BY <1>1, PagesStep DEF OnHand
<1>2. CASE page \in OnDisk'
  <2>1. PICK x \in DOMAIN disk' : page = disk'[x]
    BY <1>2 DEF OnDisk
  <2> QED
    BY <2>1, DiskStep DEF OnHand, OnDisk
<1> QED
  BY <1>1, <1>2 DEF OnHand

-----------------------------------------------------------------------------
(* The runs: pages of the present one, and of runs before.                 *)

RunsInv ==
    /\ \A page \in Range(pages) : page.run = skillRuns
    /\ \A x \in DOMAIN disk : disk[x].run \in 1 .. skillRuns
    /\ agent # 0 => /\ skillRuns > 0 /\ manifest.run < skillRuns
                    /\ \A x \in DOMAIN disk :
                          /\ x \in listed => disk[x].run = skillRuns
                          /\ disk[x].run = skillRuns /\ disk[x].of # Nothing => x \in listed
                    /\ listed \subseteq DOMAIN disk

ManifestInv == SkillsType /\ RunsInv /\ ManifestIsTrue

LEMMA RunsStep ==
    ASSUME ManifestInv, [SkillsNext]_allVars
    PROVE  RunsInv' /\ ManifestIsTrue'
<1>1. SkillsType /\ RunsInv /\ ManifestIsTrue /\ skillRuns \in Nat /\ manifest.run \in 0 .. skillRuns
  BY DEF ManifestInv, SkillsType, SkillsTypeOK
<1>2. \A x \in DOMAIN disk : disk[x].path = x /\ disk[x].run \in Nat
  BY <1>1 DEF SkillsType, SkillsTypeOK, RunsInv
<1>3. CASE StartSkills
  <2>1. skillRuns' = skillRuns + 1 /\ listed' = {} /\ disk' = disk /\ manifest' = manifest /\ pages' = << >>
    BY <1>3 DEF StartSkills, Enter
  <2>2. \A x \in DOMAIN disk : disk[x].run # skillRuns'
    BY <1>1, <2>1 DEF RunsInv
  <2>3. RunsInv'
    BY <1>1, <2>1, <2>2, NoneOf DEF RunsInv
  <2>4. ManifestIsTrue'
    BY <1>1, <2>1 DEF ManifestIsTrue, OnDisk
  <2> QED
    BY <2>3, <2>4
<1>4. CASE ~StartSkills
  <2>1. skillRuns' = skillRuns
    BY <1>4 DEF SkillsNext, SkillStep, allVars, skillVars, ReadNext, Draft, Return,
                AgentFails, Write, WriteFails, WriteManifest, SkillsCrash
  <2>2. \A page \in Range(pages)' : page.run = skillRuns
    <3> SUFFICES ASSUME NEW page \in Range(pages)' PROVE page.run = skillRuns
      OBVIOUS
    <3>1. CASE page \in Range(pages)
      BY <1>1, <3>1 DEF RunsInv
    <3>2. ASSUME Draft, NEW s \in Subjects, page = PageOf(s) PROVE page.run = skillRuns
      BY <3>2, PageOfIs DEF Draft, Drafting
    <3>3. ASSUME Return, page \in Range(Reports) PROVE page.run = skillRuns
      BY <3>3, ReportsAre DEF Return, Drafting, Page
    <3> QED
      BY <1>1, <3>1, <3>2, <3>3, PagesStep
  <2>3. agent # 0 \/ (agent' = 0 /\ disk' = disk /\ manifest' = manifest /\ UNCHANGED listed)
    BY <1>4, AgentNumbers DEF SkillsNext, SkillStep, allVars, skillVars, ReadNext, Draft, Return, AgentFails,
       Write, WriteFails, WriteManifest, SkillsCrash, Reading, Drafting, Writing, Closing, Working
  <2>4. CASE agent = 0
    BY <1>1, <2>1, <2>2, <2>3, <2>4 DEF RunsInv, ManifestIsTrue, OnDisk
  <2>5. CASE agent # 0
    <3>1. /\ skillRuns > 0 /\ manifest.run < skillRuns /\ listed \subseteq DOMAIN disk
          /\ \A x \in DOMAIN disk :
                /\ x \in listed => disk[x].run = skillRuns
                /\ disk[x].run = skillRuns /\ disk[x].of # Nothing => x \in listed
      BY <1>1, <2>5 DEF RunsInv
    <3>2. /\ Write => listed' = listed \cup {Head(pages).path}
          /\ ~Write => listed' = listed
      BY <1>4 DEF SkillsNext, SkillStep, allVars, skillVars, ReadNext, Draft, Return, AgentFails,
         Write, WriteFails, WriteManifest, SkillsCrash
    <3>3. \A x \in DOMAIN disk' :
             \/ x \in DOMAIN disk /\ disk'[x] = disk[x] /\ (Write => x # Head(pages).path)
             \/ Write /\ x = Head(pages).path /\ disk'[x].run = skillRuns
             \/ ~Write /\ disk'[x].run = skillRuns /\ disk'[x].of = Nothing
      BY <1>1, DiskStep DEF RunsInv, Emptied, Page
    <3>4. \A x \in DOMAIN disk' :
             /\ disk'[x].run \in 1 .. skillRuns
             /\ x \in listed' => disk'[x].run = skillRuns
             /\ disk'[x].run = skillRuns /\ disk'[x].of # Nothing => x \in listed'
      <4> SUFFICES ASSUME NEW x \in DOMAIN disk'
                   PROVE  /\ disk'[x].run \in 1 .. skillRuns
                          /\ x \in listed' => disk'[x].run = skillRuns
                          /\ disk'[x].run = skillRuns /\ disk'[x].of # Nothing => x \in listed'
        OBVIOUS
      <4> QED
        BY <1>1, <3>1, <3>2, <3>3 DEF RunsInv
    <3>5. listed' \subseteq DOMAIN disk'
      BY <1>1, <3>1, <3>2, DiskStep
    <3>6. \/ manifest' = manifest
          \/ agent' = 0 /\ manifest'.run = skillRuns /\ manifest'.listed = listed /\ UNCHANGED <<disk, listed>>
          \/ agent' = 0 /\ manifest'.run = 0 /\ manifest'.listed = {}
      BY <1>4 DEF SkillsNext, SkillStep, allVars, skillVars, ReadNext, Draft, Return, AgentFails,
         Write, WriteFails, WriteManifest, SkillsCrash, Enter, NoManifest
    <3>7. RunsInv'
      BY <2>1, <2>2, <3>1, <3>4, <3>5, <3>6 DEF RunsInv
    <3>8. CASE manifest' = manifest
      <4>1. \A x \in manifest.listed : x \in DOMAIN disk' /\ disk'[x].run >= manifest.run
        BY <1>1, <1>2, <3>1, <3>3, <3>8, DiskStep DEF ManifestIsTrue
      <4>2. ASSUME NEW x \in DOMAIN disk', disk'[x].run = manifest.run, disk'[x].of # Nothing
            PROVE  disk'[x].path \in manifest.listed
        <5>1. x \in DOMAIN disk /\ disk'[x] = disk[x]
          BY <1>1, <3>1, <3>3, <4>2
        <5> QED
          BY <1>1, <4>2, <5>1 DEF ManifestIsTrue, OnDisk
      <4>3. \A page \in OnDisk' :
               page.run = manifest.run /\ page.of # Nothing => page.path \in manifest.listed
        BY <4>2 DEF OnDisk
      <4>4. \A x \in manifest'.listed : x \in DOMAIN disk' /\ disk'[x].run >= manifest'.run
        BY <3>8, <4>1
      <4>5. \A page \in OnDisk' :
               page.run = manifest'.run /\ page.of # Nothing => page.path \in manifest'.listed
        BY <3>8, <4>3
      <4> QED
        BY <3>7, <4>4, <4>5 DEF ManifestIsTrue
    <3>9. CASE manifest'.run = skillRuns /\ manifest'.listed = listed /\ UNCHANGED <<disk, listed>>
      <4>1. \A x \in listed : x \in DOMAIN disk /\ disk[x].run >= skillRuns
        BY <1>1, <3>1
      <4>2. \A x \in DOMAIN disk : disk[x].run = skillRuns /\ disk[x].of # Nothing => disk[x].path \in listed
        BY <1>2, <3>1
      <4>3. \A page \in OnDisk : page.run = skillRuns /\ page.of # Nothing => page.path \in listed
        BY <4>2 DEF OnDisk
      <4>4. OnDisk' = OnDisk
        BY <3>9 DEF OnDisk
      <4> QED
        BY <3>7, <3>9, <4>1, <4>3, <4>4 DEF ManifestIsTrue
    <3>10. CASE manifest'.run = 0 /\ manifest'.listed = {}
      <4>1. \A page \in OnDisk' : page.run # 0
        BY <1>1, <3>4 DEF OnDisk
      <4> QED
        BY <3>7, <3>10, <4>1 DEF ManifestIsTrue
    <3> QED
      BY <3>6, <3>7, <3>8, <3>9, <3>10
  <2> QED
    BY <2>4, <2>5
<1> QED
  BY <1>3, <1>4

LEMMA RunsAlways == SkillsSpec => []ManifestInv
<1>1. SkillsInit => RunsInv /\ ManifestIsTrue
  BY NoneOf DEF SkillsInit, NoManifest, RunsInv, ManifestIsTrue, OnDisk
<1>2. ManifestInv /\ SkillsType' /\ [SkillsNext]_allVars => ManifestInv'
  BY RunsStep DEF ManifestInv
<1>3. SkillsInit /\ SkillsType => ManifestInv
  BY <1>1 DEF ManifestInv
<1> QED
  BY <1>2, <1>3, SkillsTypeAlways, PTL DEF SkillsSpec

(* ManifestIsTrue: what the manifest lists is on disk, and what its run    *)
(* wrote is listed, although writes fail or are cut off and later runs     *)
(* write over the pages (skills/orchestrator.py lists a page after it is   *)
(* written).                                                               *)
THEOREM ManifestHolds == SkillsSpec => []ManifestIsTrue
<1>1. ManifestInv => ManifestIsTrue
  BY DEF ManifestInv
<1> QED
  BY <1>1, RunsAlways, PTL

-----------------------------------------------------------------------------
(* What an agent has read.  It is in the graph, which only grows, and it   *)
(* has what the graph told when the run began.                             *)

Matches(kind, e) == IF kind = "link" THEN e[2] \in Links ELSE e[2] = kind

IsRead(kind) ==
    /\ kind \in NodeKinds => {id \in known.ids : id.type = kind} \subseteq got[kind]
    /\ kind \in EdgeKinds \ {"INCLUDES"} =>
          \A e \in known.edges : Matches(kind, e) => e \in got[kind]

KnownInv == known.ids \subseteq DOMAIN nodes /\ known.edges \subseteq edges

GotInv ==
    /\ \A k \in NodeKinds : \A id \in got[k] : id \in DOMAIN nodes /\ id.type = k
    /\ \A k \in EdgeKinds : \A e \in got[k] : e \in edges /\ Matches(k, e)

ReadInv ==
    /\ KnownInv /\ GotInv
    /\ Reading \/ Drafting =>
          \A i \in DOMAIN Reads[Name] : i < step => \A k \in Reads[Name][i] : IsRead(k)

LEMMA KindsDiffer == NodeKinds \cap EdgeKinds = {} /\ "tangled" \notin NodeKinds \cup EdgeKinds
  BY DEF NodeKinds, EdgeKinds

LEMMA NodesRead ==
    ASSUME NEW k \in NodeKinds
    PROVE  Read(k) = {id \in DOMAIN nodes : id.type = k}
<1>1. k # "link" /\ k # "INCLUDES" /\ k # "tangled"
  BY DEF NodeKinds
<1>2. Read(k) = NodesOf(k, DOMAIN nodes)
  BY <1>1 DEF Read
<1> QED
  BY <1>2 DEF NodesOf

LEMMA EdgesRead ==
    ASSUME NEW k \in EdgeKinds
    PROVE  /\ \A e \in Read(k) : e \in edges /\ Matches(k, e)
           /\ k # "INCLUDES" => \A e \in edges : Matches(k, e) => e \in Read(k)
<1>1. k \notin NodeKinds /\ k # "tangled"
  BY KindsDiffer
<1>2. CASE k = "link"
  BY <1>1, <1>2 DEF Read, Matches
<1>3. CASE k = "INCLUDES"
  <2>1. Read(k) = {e \in edges : e[2] = k /\ IsStored(nodes, e[1])}
    BY <1>1, <1>3 DEF Read
  <2> QED
    BY <1>3, <2>1 DEF Matches
<1>4. CASE k # "link" /\ k # "INCLUDES"
  BY <1>1, <1>4 DEF Read, Matches
<1> QED
  BY <1>2, <1>3, <1>4

LEMMA NothingGot ==
    /\ \A k \in NodeKinds : NothingRead[k] = {}
    /\ \A k \in EdgeKinds : NothingRead[k] = {}
  BY DEF NothingRead, Kinds

(* Where a step leads: to the next agent or out, to the writing of pages,  *)
(* on in the reading, or nowhere.                                          *)
LEMMA Moves ==
    ASSUME SkillsType, [SkillsNext]_allVars
    PROVE  \/ \E a \in 0 .. 9 : Enter(a)
           \/ /\ Return \/ Write \/ WriteFails
              /\ Working /\ UNCHANGED agent /\ Writing' /\ got' = NothingRead
           \/ ReadNext
           \/ (Draft \/ UNCHANGED skillVars) /\ UNCHANGED <<agent, step, got>>
<1>1. CASE StartSkills \/ WriteManifest \/ SkillsCrash
  BY <1>1 DEF StartSkills, WriteManifest, SkillsCrash
<1>2. CASE AgentFails
  <2>1. agent + 1 \in 0 .. 9
    BY <1>2, AgentNumbers DEF AgentFails, Reading, Drafting, Working
  <2> QED
    BY <1>2, <2>1 DEF AgentFails
<1>3. CASE Return \/ Write \/ WriteFails
  <2>1. PICK rest : GoOn(rest)
    BY <1>3 DEF Return, Write, WriteFails
  <2>2. Working /\ agent + 1 \in 0 .. 9
    BY <1>3, AgentNumbers DEF Return, Write, WriteFails, Writing, Drafting, Working
  <2>3. CASE rest = << >>
    BY <2>1, <2>2, <2>3 DEF GoOn
  <2>4. CASE rest # << >>
    BY <1>3, <2>1, <2>2, <2>4 DEF GoOn, Writing, Name, Working
  <2> QED
    BY <2>3, <2>4
<1>4. CASE ReadNext
  BY <1>4
<1>5. CASE Draft \/ UNCHANGED skillVars
  BY <1>5 DEF Draft, skillVars
<1> QED
  BY <1>1, <1>2, <1>3, <1>4, <1>5 DEF SkillsNext, SkillStep, allVars

LEMMA ReadStep ==
    ASSUME TypeOK, SkillsType, SkillsType', ReadInv, [SkillsNext]_allVars
    PROVE  ReadInv'
<1>1. DOMAIN nodes \subseteq DOMAIN nodes' /\ edges \subseteq edges'
  BY Grows DEF SkillsNext, allVars
<1>2. KnownInv'
  <2>1. CASE StartSkills
    BY <1>1, <2>1 DEF StartSkills, KnownInv, Told
  <2>2. CASE ~StartSkills
    <3>1. known' = known
      BY <2>2 DEF SkillsNext, SkillStep, allVars, skillVars, ReadNext, Draft, Return, AgentFails,
         Write, WriteFails, WriteManifest, SkillsCrash
    <3> QED
      BY <1>1, <3>1 DEF KnownInv, ReadInv
  <2> QED
    BY <2>1, <2>2
<1>3. ASSUME NEW a \in 0 .. 9, Enter(a)
      PROVE  ReadInv'
  <2>1. GotInv' /\ step' = 1
    BY <1>3, NothingGot DEF GotInv, Enter
  <2>2. (Reading \/ Drafting =>
            \A i \in DOMAIN Reads[Name] : i < step => \A k \in Reads[Name][i] : IsRead(k))'
    <3> SUFFICES ASSUME (Reading \/ Drafting)', NEW i \in DOMAIN Reads[Agents[agent']] PROVE ~(i < 1)
      BY <2>1 DEF Name
    <3>1. agent' \in 1 .. 8
      BY AgentNumbers DEF Reading, Drafting, Working
    <3> QED
      BY <3>1, ReadsLength, NameOf
  <2> QED
    BY <1>2, <2>1, <2>2 DEF ReadInv
<1>4. CASE Writing' /\ got' = NothingRead
  <2>1. GotInv'
    BY <1>4, NothingGot DEF GotInv
  <2>2. ~(Reading \/ Drafting)'
    <3>1. agent' \in 1 .. 8
      BY <1>4, AgentNumbers DEF Writing, Working
    <3>2. Len(Reads[Name])' \in Nat
      BY <3>1, ReadsLength, NameOf DEF Name
    <3> QED
      BY <1>4, <3>2 DEF Writing, Reading, Drafting
  <2> QED
    BY <1>2, <2>1, <2>2 DEF ReadInv
<1>5. CASE UNCHANGED <<agent, step, got>> /\ ~StartSkills
  <2>1. known' = known
    BY <1>5 DEF SkillsNext, SkillStep, allVars, skillVars, ReadNext, Draft, Return, AgentFails,
         Write, WriteFails, WriteManifest, SkillsCrash
  <2>2. GotInv'
    BY <1>1, <1>5 DEF GotInv, ReadInv
  <2>3. (Reading \/ Drafting)' <=> (Reading \/ Drafting)
    BY <1>5 DEF Reading, Drafting, Working, Name
  <2>4. Name' = Name /\ \A k : IsRead(k)' <=> IsRead(k)
    BY <1>5, <2>1 DEF Name, IsRead
  <2> QED
    BY <1>2, <1>5, <2>2, <2>3, <2>4 DEF ReadInv
<1>6. CASE ReadNext
  <2>1. /\ agent \in 1 .. 8 /\ agent' = agent /\ Name' = Name /\ known' = known
        /\ step' = step + 1 /\ Reading /\ step <= Len(Reads[Name])
    BY <1>6, AgentNumbers DEF ReadNext, Reading, Working, Name
  <2>2. Len(Reads[Name]) \in Nat /\ DOMAIN Reads[Name] = 1 .. Len(Reads[Name]) /\ step \in Nat \ {0}
    BY <2>1, ReadsLength, NameOf DEF Name, SkillsType, SkillsTypeOK, Reading
  <2> DEFINE asked == Reads[Name][step]
  <2>3. got' = [k \in Kinds |-> IF k \in asked THEN Read(k) ELSE got[k]]
    BY <1>6 DEF ReadNext
  <2>4. nodes' = nodes /\ edges' = edges
    BY <1>6 DEF SkillsNext, ReadNext, allVars, skillVars, vars, storeVars
  <2> HIDE DEF asked
  <2>5. \A k \in Kinds : got'[k] = IF k \in asked THEN Read(k) ELSE got[k]
    BY <2>3
  <2>6. GotInv'
    <3>1. ASSUME NEW k \in NodeKinds
          PROVE  \A id \in got'[k] : id \in DOMAIN nodes' /\ id.type = k
      BY <2>4, <2>5, NodesRead DEF GotInv, ReadInv, Kinds
    <3>2. ASSUME NEW k \in EdgeKinds
          PROVE  \A e \in got'[k] : e \in edges' /\ Matches(k, e)
      BY <2>4, <2>5, EdgesRead DEF GotInv, ReadInv, Kinds
    <3> QED
      BY <3>1, <3>2 DEF GotInv
  <2>7. ASSUME NEW k, k \in asked \/ IsRead(k)
        PROVE  IsRead(k)'
    <3>1. CASE k \in NodeKinds
      <4>1. k \in Kinds /\ k \notin EdgeKinds
        BY <3>1, KindsDiffer DEF Kinds
      <4>2. CASE k \in asked
        BY <2>1, <2>5, <3>1, <4>1, <4>2, NodesRead DEF IsRead, ReadInv, KnownInv
      <4>3. CASE k \notin asked
        BY <2>1, <2>5, <2>7, <3>1, <4>1, <4>3 DEF IsRead
      <4> QED
        BY <4>2, <4>3
    <3>2. CASE k \in EdgeKinds
      <4>1. k \in Kinds /\ k \notin NodeKinds
        BY <3>2, KindsDiffer DEF Kinds
      <4>2. CASE k \in asked
        <5>1. k # "INCLUDES" => \A e \in edges : Matches(k, e) => e \in got'[k]
          BY <2>5, <3>2, <4>1, <4>2, EdgesRead
        <5> QED
          BY <2>1, <4>1, <5>1 DEF IsRead, ReadInv, KnownInv
      <4>3. CASE k \notin asked
        BY <2>1, <2>5, <2>7, <3>2, <4>1, <4>3 DEF IsRead
      <4> QED
        BY <4>2, <4>3
    <3>3. CASE k \notin NodeKinds \cup EdgeKinds
      BY <3>3 DEF IsRead
    <3> QED
      BY <3>1, <3>2, <3>3
  <2>8. ASSUME NEW i \in DOMAIN Reads[Name], i < step + 1, NEW k \in Reads[Name][i]
        PROVE  IsRead(k)'
    <3>1. CASE i = step
      BY <2>7, <2>8, <3>1 DEF asked
    <3>2. CASE i < step
      BY <2>1, <2>7, <2>8, <3>2 DEF ReadInv
    <3> QED
      BY <2>2, <2>8, <3>1, <3>2
  <2>9. (\A i \in DOMAIN Reads[Name] : i < step => \A k \in Reads[Name][i] : IsRead(k))'
    BY <2>1, <2>8
  <2> QED
    BY <1>2, <2>6, <2>9 DEF ReadInv
<1>7. ~StartSkills \/ \E a \in 0 .. 9 : Enter(a)
  BY DEF StartSkills
<1> QED
  BY <1>3, <1>4, <1>5, <1>6, <1>7, Moves

LEMMA ReadAlways == SkillsSpec => []ReadInv
<1>1. Init /\ SkillsInit => ReadInv
  <2> SUFFICES ASSUME Init, SkillsInit PROVE ReadInv
    OBVIOUS
  <2>1. GotInv /\ KnownInv
    BY NothingGot DEF Init, SkillsInit, GotInv, KnownInv, Told, NoNodes
  <2>2. ~Working
    BY AgentNumbers DEF SkillsInit, Working
  <2> QED
    BY <2>1, <2>2 DEF ReadInv, Reading, Drafting
<1>2. TypeOK /\ SkillsType /\ SkillsType' /\ ReadInv /\ [SkillsNext]_allVars => ReadInv'
  BY ReadStep
<1> QED
  BY <1>1, <1>2, SkillsTypeAlways, SkillsOnlyRead, TypeCorrect, PTL DEF SkillsSpec

-----------------------------------------------------------------------------
(* What a page is about, and which agents have written theirs.             *)

PageOK(page) ==
    /\ page.of.type = "Program" => page.path[1] = "dependency"
    /\ \A e \in page.in : e[2] = "CALLS" =>
          page.path[1] = "dependency" /\ e[3] = page.of /\ e[1].type = "Program"

IsWritten(page) ==
    \E a \in 1 .. 8 : Agents[a] = page.path[1] /\ (a < agent \/ (a = agent /\ Writing))

StageInv ==
    /\ \A page \in OnHand : PageOK(page)
    /\ \A page \in Range(pages) : ~Reading /\ Working /\ page.path[1] = Name
    /\ agent # 0 => \A page \in OnDisk : page.run = skillRuns => IsWritten(page)

LEMMA PathOfIs ==
    ASSUME NEW id
    PROVE  /\ id.type = "Program" => PathOf(id)[1] = "dependency"
           /\ id.type = "Copybook" => PathOf(id)[1] = "copybook"
           /\ id.type = "JCLJob" => PathOf(id)[1] = "workflow"
  BY DEF PathOf

LEMMA DraftedPage ==
    ASSUME GotInv, EdgesFit, Working, NEW s \in Subjects
    PROVE  PageOK(PageOf(s)) /\ PageOf(s).path[1] = Name
<1>1. CASE Name = "dependency"
  <2>1. s.type = "Program" /\ PageOf(s) = ProgramPage(s) /\ PageOf(s).path = PathOf(s) /\ PageOf(s).of = s
    BY <1>1, PageOfIs DEF GotInv, NodeKinds
  <2>2. PageOf(s).in = {e \in got["link"] : e[3] = s}
    BY <2>1 DEF ProgramPage, Page
  <2>3. \A e \in got["link"] : e[2] = "CALLS" => e[1].type = "Program"
    BY DEF GotInv, EdgeKinds, EdgesFit
  <2> QED
    BY <1>1, <2>1, <2>2, <2>3, PathOfIs DEF PageOK
<1>2. CASE Name = "copybook"
  <2>1. s.type = "Copybook" /\ PageOf(s) = CopybookPage(s) /\ PageOf(s).path = PathOf(s) /\ PageOf(s).of = s
    BY <1>2, PageOfIs DEF GotInv, NodeKinds
  <2>2. \A e \in PageOf(s).in : e \in got["INCLUDES"] \cup got["DERIVED_FROM"]
    BY <2>1 DEF CopybookPage, Page
  <2>3. \A e \in got["INCLUDES"] \cup got["DERIVED_FROM"] : e[2] # "CALLS"
    BY DEF GotInv, EdgeKinds, Matches
  <2> QED
    BY <1>2, <2>1, <2>2, <2>3, PathOfIs DEF PageOK
<1>3. CASE Name = "workflow"
  <2>1. s.type = "JCLJob" /\ PageOf(s) = JobPage(s) /\ PageOf(s).path = PathOf(s) /\ PageOf(s).of = s
    BY <1>3, PageOfIs DEF GotInv, NodeKinds
  <2>2. PageOf(s).in = {}
    BY <2>1 DEF JobPage, Page
  <2> QED
    BY <1>3, <2>1, <2>2, PathOfIs DEF PageOK
<1> QED
  BY <1>1, <1>2, <1>3, PageOfIs

LEMMA ReportPage ==
    ASSUME Working, NEW page \in Range(Reports)
    PROVE  PageOK(page) /\ page.path[1] = Name
<1>1. PICK path, rows : /\ page = Page(path, MakeId("Report", path[1], path[2]), {}, {}, rows)
                        /\ path[1] = Name /\ Name \in {"migration", "patterns", "copybook", "risk"}
  BY ReportsAre
<1>2. page.path = path /\ page.of.type = "Report" /\ page.in = {}
  BY <1>1 DEF Page, MakeId
<1> QED
  BY <1>1, <1>2 DEF PageOK

LEMMA EmptiedPage ==
    ASSUME NEW page
    PROVE  /\ Emptied(page).path = page.path /\ Emptied(page).run = skillRuns
           /\ Emptied(page).of.type # "Program" /\ Emptied(page).in = {} /\ Emptied(page).rows = {}
           /\ PageOK(Emptied(page))
  BY DEF Emptied, Page, Nothing, MakeId, PageOK

LEMMA Advances ==
    ASSUME SkillsType, [SkillsNext]_allVars, ~StartSkills, agent' # 0
    PROVE  /\ agent \in 1 .. 9 /\ skillRuns' = skillRuns /\ known' = known
           /\ \/ agent' = agent /\ (Writing => Writing')
              \/ agent' = agent + 1 /\ agent \in 1 .. 8
<1>1. skillRuns' = skillRuns /\ known' = known
  BY DEF SkillsNext, SkillStep, allVars, skillVars, ReadNext, Draft, Return, AgentFails,
     Write, WriteFails, WriteManifest, SkillsCrash
<1>2. CASE AgentFails
  BY <1>1, <1>2, AgentNumbers DEF AgentFails, Enter, Reading, Drafting, Working
<1>3. CASE Return \/ Write \/ WriteFails
  <2>1. PICK rest : GoOn(rest)
    BY <1>3 DEF Return, Write, WriteFails
  <2>2. agent \in 1 .. 8
    BY <1>3, AgentNumbers DEF Return, Write, WriteFails, Writing, Drafting, Working
  <2>3. CASE rest = << >>
    BY <1>1, <2>1, <2>2, <2>3 DEF GoOn, Enter
  <2>4. CASE rest # << >>
    BY <1>1, <2>1, <2>2, <2>4 DEF GoOn, Writing, Name, Working
  <2> QED
    BY <2>3, <2>4
<1>4. CASE ReadNext \/ Draft
  <2>1. agent \in 1 .. 8 /\ agent' = agent /\ ~Writing
    BY <1>4, AgentNumbers, ReadsLength, NameOf
       DEF ReadNext, Draft, Reading, Drafting, Writing, Working, Name
  <2> QED
    BY <1>1, <2>1
<1>5. CASE UNCHANGED skillVars
  BY <1>1, <1>5, AgentNumbers DEF skillVars, Writing, Working, Name, SkillsType, SkillsTypeOK
<1>6. CASE WriteManifest \/ SkillsCrash
  BY <1>6 DEF WriteManifest, SkillsCrash, Enter
<1> QED
  BY <1>2, <1>3, <1>4, <1>5, <1>6 DEF SkillsNext, SkillStep, allVars

LEMMA StageStep ==
    ASSUME ManifestInv, ReadInv, EdgesFit, SkillsType', StageInv, [SkillsNext]_allVars
    PROVE  StageInv'
<1>1. SkillsType /\ RunsInv /\ GotInv
  BY DEF ManifestInv, ReadInv
<1>2. \A page \in OnHand' : PageOK(page)
  <2> SUFFICES ASSUME NEW page \in OnHand' PROVE PageOK(page)
    OBVIOUS
  <2>1. ASSUME Draft, NEW s \in Subjects, page = PageOf(s) PROVE PageOK(page)
    BY <1>1, <2>1, DraftedPage DEF Draft, Drafting
  <2>2. ASSUME Return, page \in Range(Reports) PROVE PageOK(page)
    BY <2>2, ReportPage DEF Return, Drafting
  <2> QED
    BY <1>1, <2>1, <2>2, EmptiedPage, OnHandStep DEF StageInv
<1>3. ASSUME NEW page \in Range(pages)'
      PROVE  ~Reading' /\ Working' /\ page.path[1] = Name'
  <2>1. page.path[1] = Name /\ ~Reading /\ Working
    <3>1. CASE page \in Range(pages)
      BY <3>1 DEF StageInv
    <3>2. ASSUME Draft, NEW s \in Subjects, page = PageOf(s)
          PROVE  page.path[1] = Name /\ ~Reading /\ Working
      BY <1>1, <3>2, DraftedPage, ReadsLength, NameOf, AgentNumbers
         DEF Draft, Drafting, Reading, Working, Name
    <3>3. ASSUME Return, page \in Range(Reports)
          PROVE  page.path[1] = Name /\ ~Reading /\ Working
      BY <3>3, ReportPage, ReadsLength, NameOf, AgentNumbers DEF Return, Drafting, Reading, Working, Name
    <3> QED
      BY <1>1, <1>3, <3>1, <3>2, <3>3, PagesStep
  <2>2. ~ \E a : Enter(a)
    BY <1>3, NoneOf DEF Enter
  <2>3. agent' = agent /\ Name' = Name /\ Working'
    BY <1>1, <2>1, <2>2, Moves DEF ReadNext, Name, Working
  <2>4. ~Reading'
    <3>1. CASE Writing'
      <4>1. Len(Reads[Name])' \in Nat
        BY <2>3, AgentNumbers, ReadsLength, NameOf DEF Working, Name
      <4> QED
        BY <3>1, <4>1 DEF Reading, Writing
    <3>2. CASE step' = step
      BY <2>1, <2>3, <3>2 DEF Reading
    <3> QED
      BY <1>1, <2>1, <2>2, <3>1, <3>2, Moves DEF ReadNext
  <2> QED
    BY <2>1, <2>3, <2>4
<1>4. ASSUME agent' # 0, NEW page \in OnDisk', page.run = skillRuns'
      PROVE  IsWritten(page)'
  <2>1. ~StartSkills
    <3> SUFFICES ASSUME StartSkills PROVE FALSE
      OBVIOUS
    <3>1. skillRuns' = skillRuns + 1 /\ disk' = disk
      BY DEF StartSkills
    <3>2. PICK x \in DOMAIN disk : page = disk[x]
      BY <1>4, <3>1 DEF OnDisk
    <3> QED
      BY <1>1, <1>4, <3>1, <3>2 DEF RunsInv, SkillsType
  <2>2. /\ agent \in 1 .. 9 /\ skillRuns' = skillRuns
        /\ \/ agent' = agent /\ (Writing => Writing')
           \/ agent' = agent + 1 /\ agent \in 1 .. 8
    BY <1>1, <1>4, <2>1, Advances
  <2>3. IsWritten(page)
    <3>1. PICK x \in DOMAIN disk' : page = disk'[x]
      BY <1>4 DEF OnDisk
    <3>2. CASE x \in DOMAIN disk /\ disk'[x] = disk[x]
      BY <1>4, <2>2, <3>1, <3>2 DEF StageInv, OnDisk
    <3>3. CASE Writing /\ Head(pages) \in Range(pages) /\ page.path = Head(pages).path
      <4>1. page.path[1] = Agents[agent] /\ agent \in 1 .. 8
        BY <3>3, AgentNumbers DEF StageInv, Writing, Working, Name
      <4> QED
        BY <3>3, <4>1 DEF IsWritten
    <3> QED
      BY <1>1, <3>1, <3>2, <3>3, DiskStep, EmptiedPage
  <2>4. PICK a \in 1 .. 8 : Agents[a] = page.path[1] /\ (a < agent \/ (a = agent /\ Writing))
    BY <2>3 DEF IsWritten
  <2>5. a < agent' \/ (a = agent' /\ Writing')
    BY <2>2, <2>4
  <2> QED
    BY <2>4, <2>5 DEF IsWritten
<1> QED
  BY <1>2, <1>3, <1>4 DEF StageInv

LEMMA EdgesFitAlways == SkillsSpec => []EdgesFit
  BY SkillsOnlyRead, EdgesFollowNodes, NodesFit, PTL

LEMMA StageAlways == SkillsSpec => []StageInv
<1>1. SkillsInit => StageInv
  BY NoneOf DEF SkillsInit, StageInv, OnHand, OnDisk
<1>2. ManifestInv /\ ReadInv /\ EdgesFit /\ SkillsType' /\ StageInv /\ [SkillsNext]_allVars => StageInv'
  BY StageStep
<1> QED
  BY <1>1, <1>2, SkillsTypeAlways, RunsAlways, ReadAlways, EdgesFitAlways, PTL DEF SkillsSpec

-----------------------------------------------------------------------------
(* The two lists of a run's calls agree.  While the pages of programs are  *)
(* made, what their lists of callers come from, the list of edges that was *)
(* read before, is still at hand.                                          *)

DraftInv ==
    Drafting => \A page \in Range(pages) :
        /\ page.of \in Subjects /\ page.path = PathOf(page.of)
        /\ Name = "dependency" =>
              /\ page.in \subseteq got["link"]
              /\ \A e \in got["link"] : e[2] = "CALLS" /\ e[1] = page.of => e \in page.out

Agreed(a, b) == a.run = b.run => \A e \in b.in : e[2] = "CALLS" /\ e[1] = a.of => e \in a.out

PairInv == \A a, b \in OnHand : Agreed(a, b)

LEMMA ProgramPageLists ==
    ASSUME GotInv, EdgesFit, Working, Name = "dependency", NEW s \in Subjects
    PROVE  /\ PageOf(s).in \subseteq got["link"]
           /\ \A e \in got["link"] : e[2] = "CALLS" /\ e[1] = s => e \in PageOf(s).out
<1>1. /\ PageOf(s).in = {e \in got["link"] : e[3] = s}
      /\ PageOf(s).out = {e \in NeighborsOf(nodes, edges, s) : e[2] \in Links}
  BY PageOfIs DEF ProgramPage, Page
<1>2. \A e \in got["link"] : e \in edges /\ e[2] \in Links
  BY DEF GotInv, EdgeKinds, Matches
<1>3. \A e \in edges : e[2] = "CALLS" => IsStored(nodes, e[3])
  BY DEF EdgesFit
<1> QED
  BY <1>1, <1>2, <1>3 DEF NeighborsOf, Links

LEMMA DraftStep ==
    ASSUME SkillsType, SkillsType', ReadInv, EdgesFit, StageInv, DraftInv, [SkillsNext]_allVars
    PROVE  DraftInv'
<1> SUFFICES ASSUME Drafting', NEW page \in Range(pages)'
             PROVE  /\ page.of \in Subjects' /\ page.path = PathOf(page.of)
                    /\ Name' = "dependency" =>
                          /\ page.in \subseteq got["link"]'
                          /\ \A e \in got["link"]' : e[2] = "CALLS" /\ e[1] = page.of => e \in page.out
  BY DEF DraftInv
<1>1. ~ \E a : Enter(a)
  BY NoneOf DEF Enter
<1>2. ~Writing'
  <2>1. agent' \in 1 .. 8
    BY AgentNumbers DEF Drafting, Working
  <2>2. Len(Reads[Name])' \in Nat
    BY <2>1, ReadsLength, NameOf DEF Name
  <2> QED
    BY <2>2 DEF Drafting, Writing
<1>3. ~ReadNext
  <2> SUFFICES ASSUME ReadNext PROVE FALSE
    OBVIOUS
  <2>1. pages' = pages /\ Reading
    BY DEF ReadNext
  <2> QED
    BY <2>1 DEF StageInv
<1>4. (Draft \/ UNCHANGED skillVars) /\ UNCHANGED <<agent, step, got>>
  BY <1>1, <1>2, <1>3, Moves
<1>5. Drafting /\ Working /\ Name' = Name /\ Subjects' = Subjects
  BY <1>4 DEF Drafting, Working, Name, Subjects
<1>6. CASE page \in Range(pages)
  BY <1>4, <1>5, <1>6 DEF DraftInv
<1>7. ASSUME NEW s \in Subjects, page = PageOf(s)
      PROVE  /\ page.of \in Subjects' /\ page.path = PathOf(page.of)
             /\ Name' = "dependency" =>
                   /\ page.in \subseteq got["link"]'
                   /\ \A e \in got["link"]' : e[2] = "CALLS" /\ e[1] = page.of => e \in page.out
  BY <1>4, <1>5, <1>7, PageOfIs, ProgramPageLists DEF ReadInv
<1>8. CASE Return
  <2>1. PICK rest : GoOn(rest)
    BY <1>8 DEF Return
  <2>2. step' = Len(Reads[Name]) + 2 /\ step = Len(Reads[Name]) + 1 /\ step' = step
    BY <1>1, <1>4, <1>5, <2>1 DEF GoOn, Drafting
  <2>3. Len(Reads[Name]) \in Nat
    BY <1>5, AgentNumbers, ReadsLength, NameOf DEF Working, Name
  <2> QED
    BY <2>2, <2>3
<1> QED
  BY <1>6, <1>7, <1>8, PagesStep

LEMMA PairStep ==
    ASSUME ManifestInv, ReadInv, EdgesFit, StageInv, StageInv', DraftInv, PairInv, [SkillsNext]_allVars
    PROVE  PairInv'
<1>1. SkillsType /\ RunsInv /\ GotInv
  BY DEF ManifestInv, ReadInv
<1>2. ASSUME Return, NEW q \in Range(Reports), NEW p \in OnHand \cup Range(Reports)
      PROVE  Agreed(p, q) /\ Agreed(q, p)
  <2>1. \A r \in Range(Reports) : r.in = {} /\ r.of.type = "Report"
    BY <1>2, ReportsAre DEF Return, Drafting, Page, MakeId
  <2>2. \A e \in p.in : e[2] = "CALLS" => e[1].type = "Program"
    BY <1>2, <2>1 DEF StageInv, PageOK
  <2> QED
    BY <2>1, <2>2 DEF Agreed
<1>3. ASSUME Draft, NEW s \in Subjects, NEW p \in OnHand \cup {PageOf(t) : t \in Subjects}
      PROVE  Agreed(p, PageOf(s)) /\ Agreed(PageOf(s), p)
  <2> DEFINE q == PageOf(s)
  <2>1. Working /\ Drafting /\ agent \in 1 .. 8
    BY <1>3, AgentNumbers DEF Draft, Drafting, Working
  <2>2. PageOK(q) /\ q.path[1] = Name /\ q.of = s /\ q.run = skillRuns
    BY <1>1, <2>1, DraftedPage, PageOfIs
  <2>3. PageOK(p)
    <3>1. ASSUME NEW t \in Subjects PROVE PageOK(PageOf(t))
      BY <1>1, <2>1, DraftedPage
    <3> QED
      BY <1>3, <3>1 DEF StageInv
  <2>4. CASE Name # "dependency"
    <3> HIDE DEF q
    <3>1. \A e \in p.in : e[2] = "CALLS" => e[1] # q.of
      BY <2>2, <2>3, <2>4 DEF PageOK
    <3>2. \A e \in q.in : e[2] # "CALLS"
      BY <2>2, <2>4 DEF PageOK
    <3> QED
      BY <3>1, <3>2 DEF Agreed, q
  <2>5. CASE Name = "dependency"
    <3>1. /\ q.in \subseteq got["link"]
          /\ \A e \in got["link"] : e[2] = "CALLS" /\ e[1] = q.of => e \in q.out
      BY <1>1, <2>1, <2>2, <2>5, ProgramPageLists
    <3>2. ASSUME p.run = skillRuns, p.path[1] = "dependency"
          PROVE  /\ p.in \subseteq got["link"]
                 /\ \A e \in got["link"] : e[2] = "CALLS" /\ e[1] = p.of => e \in p.out
      <4>1. ASSUME NEW t \in Subjects, p = PageOf(t)
            PROVE  /\ p.in \subseteq got["link"]
                   /\ \A e \in got["link"] : e[2] = "CALLS" /\ e[1] = p.of => e \in p.out
        BY <1>1, <2>1, <2>5, <4>1, ProgramPageLists, PageOfIs
      <4>2. CASE p \in Range(pages)
        BY <2>1, <2>5, <4>2 DEF DraftInv
      <4>3. CASE p \in OnDisk
        <5>1. IsWritten(p)
          BY <2>1, <3>2, <4>3 DEF StageInv
        <5>2. agent = 3 /\ \A a \in 1 .. 8 : Agents[a] = "dependency" => a = 3
          BY <2>1, <2>5, NameOf DEF Name
        <5>3. ~Writing
          BY <2>1, ReadsLength, NameOf DEF Drafting, Writing, Name
        <5> QED
          BY <3>2, <5>1, <5>2, <5>3 DEF IsWritten
      <4> QED
        BY <1>3, <4>1, <4>2, <4>3 DEF OnHand
    <3> HIDE DEF q
    <3>3. ASSUME p.run = skillRuns, NEW e \in p.in, e[2] = "CALLS", e[1] = q.of
          PROVE  e \in q.out
      BY <2>3, <3>1, <3>2, <3>3 DEF PageOK
    <3>4. ASSUME p.run = skillRuns, NEW e \in q.in, e[2] = "CALLS", e[1] = p.of
          PROVE  e \in p.out
      BY <2>2, <2>3, <3>1, <3>2, <3>4 DEF PageOK
    <3> QED
      BY <2>2, <3>3, <3>4 DEF Agreed, q
  <2> QED
    BY <2>4, <2>5
<1> DEFINE cut == Emptied(Head(pages))
<1>6. ASSUME NEW p, PageOK(p)
      PROVE  Agreed(p, cut) /\ Agreed(cut, p)
  BY <1>6, EmptiedPage DEF Agreed, PageOK
<1> HIDE DEF cut
<1>7. \A p \in OnHand' : PageOK(p)
  BY DEF StageInv
<1> SUFFICES ASSUME NEW a \in OnHand', NEW b \in OnHand' PROVE Agreed(a, b)
  BY DEF PairInv
<1>4. CASE a \in OnHand /\ b \in OnHand
  BY <1>4 DEF PairInv
<1>5. ~(Draft /\ Return)
  <2> SUFFICES ASSUME Draft, Return PROVE FALSE
    OBVIOUS
  <2>1. Subjects \subseteq Drafted
    BY DEF Return
  <2> QED
    BY <2>1 DEF Draft
<1> QED
  BY <1>1, <1>2, <1>3, <1>4, <1>5, <1>6, <1>7, OnHandStep DEF cut

LEMMA DraftAlways == SkillsSpec => []DraftInv
<1>1. SkillsInit => DraftInv
  BY NoneOf DEF SkillsInit, DraftInv
<1>2. /\ SkillsType /\ SkillsType' /\ ReadInv /\ EdgesFit /\ StageInv /\ DraftInv
      /\ [SkillsNext]_allVars
      => DraftInv'
  BY DraftStep
<1> QED
  BY <1>1, <1>2, SkillsTypeAlways, ReadAlways, EdgesFitAlways, StageAlways, PTL DEF SkillsSpec

(* CallersAreCalls: of two pages of one run, the caller that one names     *)
(* names the call, although the list of callers was read with the list of  *)
(* edges and the calls with the page (skills/dependency.py), and an        *)
(* extraction adds to the graph between the two.                           *)
THEOREM PagesAgree == SkillsSpec => []CallersAreCalls
<1>1. PairInv => CallersAreCalls
  BY DEF PairInv, Agreed, CallersAreCalls, OnHand
<1>2. SkillsInit => PairInv
  BY NoneOf DEF SkillsInit, PairInv, OnHand, OnDisk
<1>3. /\ ManifestInv /\ ReadInv /\ EdgesFit /\ StageInv /\ StageInv' /\ DraftInv /\ PairInv
      /\ [SkillsNext]_allVars
      => PairInv'
  BY PairStep
<1> QED
  BY <1>1, <1>2, <1>3, RunsAlways, ReadAlways, EdgesFitAlways, StageAlways, DraftAlways, PTL
     DEF SkillsSpec

-----------------------------------------------------------------------------
(* What a page tells is in the graph, and it tells what was there when its *)
(* run began.                                                              *)

TellsOfProgram(page) ==
    /\ \A e \in page.out : e \in edges /\ e[1] = page.of /\ IsStored(nodes, e[3])
    /\ \A e \in page.in : e \in edges /\ e[3] = page.of
    /\ page.run = skillRuns =>
          \A e \in known.edges :
              e[2] \in Links /\ e[1] \in known.ids /\ e[3] \in known.ids /\ page.of \in {e[1], e[3]} =>
                  e \in page.out \cup page.in

TellsPatterns(page) ==
    page.run = skillRuns =>
        \A e \in known.edges : e[2] \in {"CALLS", "PERFORMS"} => e[3] \notin page.rows

TellInv ==
    \A page \in OnHand :
        /\ page.of.type = "Program" => TellsOfProgram(page)
        /\ page.path[1] = "patterns" => TellsPatterns(page)

LEMMA DraftHasRead ==
    ASSUME ReadInv, Drafting
    PROVE  /\ Name = "dependency" => IsRead("Program") /\ IsRead("link")
           /\ Name = "patterns" => IsRead("PERFORMS") /\ IsRead("CALLS")
           /\ Name = "copybook" => IsRead("Copybook")
           /\ Name = "workflow" => IsRead("JCLJob")
<1>1. /\ \A i \in DOMAIN Reads[Name] : i < step => \A k \in Reads[Name][i] : IsRead(k)
      /\ DOMAIN Reads[Name] = 1 .. Len(Reads[Name]) /\ step = Len(Reads[Name]) + 1
      /\ Len(Reads[Name]) \in Nat
  BY ReadsLength, NameOf, AgentNumbers DEF ReadInv, Drafting, Working, Name
<1>2. \A i \in 1 .. Len(Reads[Name]) : \A k \in Reads[Name][i] : IsRead(k)
  BY <1>1
<1>3. CASE Name = "dependency"
  BY <1>2, <1>3, ReadsAre
<1>4. CASE Name = "patterns"
  BY <1>2, <1>4, ReadsAre
<1>5. CASE Name = "copybook"
  BY <1>2, <1>5, ReadsAre
<1>6. CASE Name = "workflow"
  BY <1>2, <1>6, ReadsAre
<1> QED
  BY <1>3, <1>4, <1>5, <1>6

LEMMA ProgramPageTells ==
    ASSUME ReadInv, Drafting, Name = "dependency", NEW s \in Subjects
    PROVE  TellsOfProgram(PageOf(s))
<1>1. /\ PageOf(s).in = {e \in got["link"] : e[3] = s}
      /\ PageOf(s).out = {e \in NeighborsOf(nodes, edges, s) : e[2] \in Links}
      /\ PageOf(s).of = s
  BY PageOfIs DEF ProgramPage, Page, Drafting
<1>2. \A e \in got["link"] : e \in edges
  BY DEF ReadInv, GotInv, EdgeKinds
<1>3. ASSUME NEW e \in known.edges, e[2] \in Links, e[1] \in known.ids, e[3] \in known.ids, s \in {e[1], e[3]}
      PROVE  e \in PageOf(s).out \cup PageOf(s).in
  <2>1. e \in edges /\ IsStored(nodes, e[3])
    BY <1>3 DEF ReadInv, KnownInv, IsStored
  <2>2. e \in got["link"]
    BY <1>3, DraftHasRead DEF IsRead, EdgeKinds, Matches
  <2> QED
    BY <1>1, <1>3, <2>1, <2>2 DEF NeighborsOf
<1> QED
  BY <1>1, <1>2, <1>3 DEF TellsOfProgram, NeighborsOf

LEMMA SmellsTell ==
    ASSUME ReadInv, EdgesFit, Drafting, Name = "patterns",
           NEW e \in known.edges, e[2] \in {"CALLS", "PERFORMS"}
    PROVE  e[3] \notin Smells
<1>1. e \in edges
  BY DEF ReadInv, KnownInv
<1>2. /\ \A p \in got["Paragraph"] : p.type = "Paragraph"
      /\ \A p \in got["Program"] : p.type = "Program"
  BY DEF ReadInv, GotInv, NodeKinds
<1>3. CASE e[2] = "CALLS"
  <2>1. e[3].type = "Program" /\ e \in got["CALLS"]
    BY <1>1, <1>3, DraftHasRead DEF EdgesFit, IsRead, EdgeKinds, Matches
  <2> QED
    BY <1>2, <1>3, <2>1 DEF Smells
<1>4. CASE e[2] = "PERFORMS"
  <2>1. e[3].type = "Paragraph" /\ e \in got["PERFORMS"]
    BY <1>1, <1>4, DraftHasRead DEF EdgesFit, IsRead, EdgeKinds, Matches
  <2> QED
    BY <1>2, <1>4, <2>1 DEF Smells
<1> QED
  BY <1>3, <1>4

LEMMA TellStep ==
    ASSUME TypeOK, ManifestInv, ReadInv, EdgesFit, StageInv, TellInv, [SkillsNext]_allVars
    PROVE  TellInv'
<1>1. SkillsType /\ RunsInv /\ GotInv
  BY DEF ManifestInv, ReadInv
<1>2. DOMAIN nodes \subseteq DOMAIN nodes' /\ edges \subseteq edges'
  BY Grows DEF SkillsNext, allVars
<1>3. CASE StartSkills
  <2>1. skillRuns' = skillRuns + 1 /\ disk' = disk /\ pages' = << >> /\ Range(pages') = {}
    BY <1>3, NoneOf DEF StartSkills, Enter
  <2> SUFFICES ASSUME NEW page \in OnDisk
               PROVE  /\ page.of.type = "Program" => TellsOfProgram(page)'
                      /\ page.path[1] = "patterns" => TellsPatterns(page)'
    BY <2>1 DEF TellInv, OnHand, OnDisk
  <2>2. page.run # skillRuns'
    BY <1>1, <2>1 DEF RunsInv, OnDisk, SkillsType
  <2> QED
    BY <1>2, <2>2 DEF TellInv, OnHand, TellsOfProgram, TellsPatterns, IsStored
<1>4. CASE ~StartSkills
  <2>1. skillRuns' = skillRuns /\ known' = known
    BY <1>4 DEF SkillsNext, SkillStep, allVars, skillVars, ReadNext, Draft, Return, AgentFails,
       Write, WriteFails, WriteManifest, SkillsCrash
  <2>2. ASSUME NEW page
        PROVE  /\ TellsOfProgram(page) => TellsOfProgram(page)'
               /\ TellsPatterns(page) => TellsPatterns(page)'
    BY <1>2, <2>1 DEF TellsOfProgram, TellsPatterns, IsStored
  <2> SUFFICES ASSUME NEW page \in OnHand'
               PROVE  /\ page.of.type = "Program" => TellsOfProgram(page)
                      /\ page.path[1] = "patterns" => TellsPatterns(page)
    BY <2>2 DEF TellInv
  <2>3. CASE page \in OnHand
    BY <2>3 DEF TellInv
  <2>4. ASSUME Draft, NEW s \in Subjects, page = PageOf(s)
        PROVE  /\ page.of.type = "Program" => TellsOfProgram(page)
               /\ page.path[1] = "patterns" => TellsPatterns(page)
    <3>1. Drafting /\ Working
      BY <2>4 DEF Draft, Drafting
    <3>2. page.path[1] = Name /\ Name # "patterns" /\ PageOK(page)
      BY <1>1, <2>4, <3>1, DraftedPage, PageOfIs
    <3> QED
      BY <2>4, <3>1, <3>2, ProgramPageTells DEF PageOK
  <2>5. ASSUME Return, page \in Range(Reports)
        PROVE  /\ page.of.type = "Program" => TellsOfProgram(page)
               /\ page.path[1] = "patterns" => TellsPatterns(page)
    <3>1. Drafting /\ Working
      BY <2>5 DEF Return, Drafting
    <3>2. page.path[1] = Name /\ page.of.type # "Program" /\ (Name = "patterns" => page.rows = Smells)
      BY <2>5, <3>1, ReportsAre DEF Page, MakeId
    <3> QED
      BY <3>1, <3>2, SmellsTell DEF TellsPatterns
  <2>6. CASE page = Emptied(Head(pages))
    BY <2>6, EmptiedPage DEF TellsPatterns
  <2> QED
    BY <1>1, <2>3, <2>4, <2>5, <2>6, OnHandStep
<1> QED
  BY <1>3, <1>4

(* PagesAgreeWithQueries: a program's page says nothing that the queries   *)
(* do not say, and leaves out no call, table or file of the program that   *)
(* was in the graph, with both its ends, when the run began                *)
(* (skills/dependency.py); what the report lists as never called or        *)
(* performed was not called or performed then (skills/patterns.py).        *)
THEOREM PagesTellTheGraph == SkillsSpec => []PagesAgreeWithQueries
<1>1. TellInv /\ StageInv /\ EdgesFit => PagesAgreeWithQueries
  <2> SUFFICES ASSUME TellInv, StageInv, EdgesFit, NEW page \in OnDisk
               PROVE  /\ page.of.type = "Program" =>
                           LET told == page.out \cup page.in
                               calls == {e \in page.in : e[2] = "CALLS"}
                           IN  /\ told \subseteq Touching(nodes, edges, page.of)
                               /\ calls \subseteq Invokers(nodes, edges, page.of)
                               /\ page.run = skillRuns =>
                                    {e \in Touching(nodes, known.edges, page.of) :
                                        e[2] \in Links /\ e[1] \in known.ids /\ e[3] \in known.ids}
                                    \subseteq told
                      /\ page.path[1] = "patterns" /\ page.run = skillRuns =>
                           \A e \in known.edges : e[2] \in {"CALLS", "PERFORMS"} => e[3] \notin page.rows
    BY DEF PagesAgreeWithQueries
  <2>1. PageOK(page) /\ page \in OnHand
    BY DEF StageInv, OnHand
  <2>2. CASE page.of.type = "Program"
    <3>1. TellsOfProgram(page)
      BY <2>1, <2>2 DEF TellInv
    <3>2. \A e \in page.in : e \in edges /\ e[3] = page.of /\ IsStored(nodes, e[1])
      BY <2>2, <3>1 DEF TellsOfProgram, EdgesFit
    <3>3. page.out \cup page.in \subseteq Touching(nodes, edges, page.of)
      BY <3>1, <3>2 DEF TellsOfProgram, Touching, NeighborsOf
    <3>4. {e \in page.in : e[2] = "CALLS"} \subseteq Invokers(nodes, edges, page.of)
      BY <3>2 DEF Invokers
    <3>5. page.run = skillRuns =>
            {e \in Touching(nodes, known.edges, page.of) :
                e[2] \in Links /\ e[1] \in known.ids /\ e[3] \in known.ids} \subseteq page.out \cup page.in
      BY <3>1 DEF TellsOfProgram, Touching, NeighborsOf
    <3>6. page.path[1] # "patterns"
      BY <2>1, <2>2 DEF PageOK
    <3> QED
      BY <3>3, <3>4, <3>5, <3>6
  <2>3. CASE page.path[1] = "patterns"
    BY <2>1, <2>3 DEF TellInv, TellsPatterns, PageOK
  <2> QED
    BY <2>2, <2>3
<1>2. SkillsInit => TellInv
  BY NoneOf DEF SkillsInit, TellInv, OnHand, OnDisk
<1>3. /\ TypeOK /\ ManifestInv /\ ReadInv /\ EdgesFit /\ StageInv /\ TellInv
      /\ [SkillsNext]_allVars
      => TellInv'
  BY TellStep
<1> QED
  BY <1>1, <1>2, <1>3, RunsAlways, ReadAlways, EdgesFitAlways, StageAlways, SkillsOnlyRead, TypeCorrect, PTL
     DEF SkillsSpec

-----------------------------------------------------------------------------
(* No agent's failure costs another agent's page.  What is owed by an      *)
(* agent that is done is settled, and what one that is writing owes is     *)
(* settled or still to be written.                                         *)

Settled(x) == x \in listed \cup errors \/ <<x[1]>> \in errors

OwedInv ==
    /\ agent # 0 => \A x \in Owed :
          /\ (\E a \in 1 .. 8 : a < agent /\ Agents[a] = x[1]) => Settled(x)
          /\ Writing /\ Name = x[1] => Settled(x) \/ \E page \in Range(pages) : page.path = x
    /\ NothingIsLeftOut

LEMMA OwedIs ==
    ASSUME NEW x \in Owed
    PROVE  /\ \/ \E id \in known.ids :
                    /\ x = PathOf(id)
                    /\ \/ id.type = "Program" /\ x[1] = "dependency"
                       \/ id.type = "Copybook" /\ x[1] = "copybook"
                       \/ id.type = "JCLJob" /\ x[1] = "workflow"
              \/ x = Overview \/ x = RiskReport
           /\ x[1] \in {"dependency", "copybook", "workflow", "risk"}
           /\ \E a \in 1 .. 8 : Agents[a] = x[1]
<1>1. Overview[1] = "copybook" /\ RiskReport[1] = "risk"
  BY DEF Overview, RiskReport
<1>2. x \in {PathOf(id) : id \in {i \in known.ids : i.type \in {"Program", "Copybook", "JCLJob"}}}
        \/ x = Overview \/ x = RiskReport
  BY DEF Owed
<1>3. \/ \E id \in known.ids :
            /\ x = PathOf(id)
            /\ \/ id.type = "Program" /\ x[1] = "dependency"
               \/ id.type = "Copybook" /\ x[1] = "copybook"
               \/ id.type = "JCLJob" /\ x[1] = "workflow"
      \/ x = Overview \/ x = RiskReport
  BY <1>2, PathOfIs
<1>4. x[1] \in {"dependency", "copybook", "workflow", "risk"}
  BY <1>1, <1>3
<1> QED
  BY <1>3, <1>4, AgentNumbers

(* An agent that returns has a page for all it owes.                       *)
LEMMA ReturnCovers ==
    ASSUME SkillsType, ReadInv, DraftInv, Return, NEW x \in Owed, x[1] = Name
    PROVE  \E page \in Range(pages) \cup Range(Reports) : page.path = x
<1>1. Drafting /\ Working /\ Subjects \subseteq Drafted
  BY DEF Return, Drafting
<1>2. ASSUME NEW id \in Subjects
      PROVE  \E page \in Range(pages) : page.path = PathOf(id)
  <2>1. PICK i \in DOMAIN pages : pages[i].of = id
    BY <1>1, <1>2 DEF Drafted
  <2>2. pages[i] \in Range(pages)
    BY <2>1 DEF Range
  <2> QED
    BY <1>1, <2>1, <2>2 DEF DraftInv
<1>3. ASSUME NEW id \in known.ids,
             \/ id.type = "Program" /\ Name = "dependency"
             \/ id.type = "Copybook" /\ Name = "copybook"
             \/ id.type = "JCLJob" /\ Name = "workflow"
      PROVE  id \in Subjects
  <2>1. CASE id.type = "Program" /\ Name = "dependency"
    BY <1>1, <1>3, <2>1, DraftHasRead DEF IsRead, NodeKinds, Subjects
  <2>2. CASE id.type = "Copybook" /\ Name = "copybook"
    BY <1>1, <1>3, <2>2, DraftHasRead DEF IsRead, NodeKinds, Subjects
  <2>3. CASE id.type = "JCLJob" /\ Name = "workflow"
    BY <1>1, <1>3, <2>3, DraftHasRead DEF IsRead, NodeKinds, Subjects
  <2> QED
    BY <1>3, <2>1, <2>2, <2>3
<1>4. CASE x = Overview \/ x = RiskReport
  <2>1. /\ x = Overview => Name = "copybook"
        /\ x = RiskReport => Name = "risk"
    BY DEF Overview, RiskReport
  <2> QED
    BY <1>1, <1>4, <2>1, ReportsAre
<1>5. ASSUME NEW id \in known.ids, x = PathOf(id),
             \/ id.type = "Program" /\ x[1] = "dependency"
             \/ id.type = "Copybook" /\ x[1] = "copybook"
             \/ id.type = "JCLJob" /\ x[1] = "workflow"
      PROVE  \E page \in Range(pages) : page.path = x
  BY <1>2, <1>3, <1>5
<1> QED
  BY <1>4, <1>5, OwedIs

(* Writing settles what it takes from the pages.                           *)
LEMMA WritingCovers ==
    ASSUME SkillsType, ReadInv, DraftInv, OwedInv, Return \/ Write \/ WriteFails, agent # 0
    PROVE  \E rest : /\ GoOn(rest)
                     /\ \A x \in Owed : x[1] = Name =>
                           Settled(x)' \/ \E page \in Range(rest) : page.path = x
<1>1. CASE Return
  <2>1. GoOn(pages \o Reports) /\ Working
    BY <1>1 DEF Return, Drafting
  <2>2. Range(pages \o Reports) = Range(pages) \cup Range(Reports)
    BY <2>1, ReportsAre, ConcatSequence DEF SkillsType
  <2>3. \A x \in Owed : x[1] = Name => \E page \in Range(pages \o Reports) : page.path = x
    BY <1>1, <2>2, ReturnCovers
  <2> QED
    BY <2>1, <2>3
<1>2. CASE Write \/ WriteFails
  <2>1. Writing /\ GoOn(Tail(pages))
    BY <1>2 DEF Write, WriteFails
  <2>2. \A page \in Range(pages) : page = Head(pages) \/ page \in Range(Tail(pages))
    BY <2>1, TailIs DEF SkillsType
  <2>3. /\ listed \cup errors \cup {Head(pages).path} \subseteq listed' \cup errors'
        /\ errors \subseteq errors'
    BY <1>2 DEF Write, WriteFails
  <2>4. ASSUME NEW x \in Owed, x[1] = Name
        PROVE  Settled(x)' \/ \E page \in Range(Tail(pages)) : page.path = x
    <3>1. Settled(x) \/ \E page \in Range(pages) : page.path = x
      BY <2>1, <2>4 DEF OwedInv
    <3> QED
      BY <2>2, <2>3, <3>1 DEF Settled
  <2> QED
    BY <2>1, <2>4
<1> QED
  BY <1>1, <1>2

LEMMA OwedStep ==
    ASSUME ManifestInv, ManifestInv', ReadInv, DraftInv, OwedInv, [SkillsNext]_allVars
    PROVE  OwedInv'
<1>1. SkillsType /\ RunsInv /\ SkillsType' /\ RunsInv'
  BY DEF ManifestInv
<1>2. NothingIsLeftOut'
  <2>1. CASE agent' # 0
    BY <1>1, <2>1 DEF RunsInv, NothingIsLeftOut, SkillsType, SkillsTypeOK
  <2>2. CASE WriteManifest
    <3>1. /\ agent = 9 /\ manifest'.listed = listed /\ errors' = errors /\ known' = known
      BY <2>2, AgentNumbers DEF WriteManifest, Closing
    <3>2. Owed' = Owed
      BY <3>1 DEF Owed, PathOf, Overview, RiskReport
    <3>3. \A x \in Owed : Settled(x)
      BY <3>1, OwedIs DEF OwedInv
    <3> QED
      BY <3>1, <3>2, <3>3 DEF NothingIsLeftOut, Settled
  <2>3. CASE SkillsCrash
    <3>1. skillRuns > 0 /\ manifest.run < skillRuns /\ skillRuns' = skillRuns
      BY <1>1, <2>3 DEF SkillsCrash, RunsInv
    <3>2. manifest'.run # skillRuns'
      BY <1>1, <2>3, <3>1 DEF SkillsCrash, NoManifest, SkillsType, SkillsTypeOK
    <3> QED
      BY <3>2 DEF NothingIsLeftOut
  <2>4. CASE agent' = 0 /\ ~WriteManifest /\ ~SkillsCrash
    <3>1. UNCHANGED <<errors, manifest, skillRuns, known>>
      BY <2>4, AgentNumbers DEF SkillsNext, SkillStep, allVars, skillVars, StartSkills, ReadNext, Draft, Return,
         AgentFails, Write, WriteFails, Enter, GoOn, Reading, Drafting, Writing, Working
    <3>2. Owed' = Owed
      BY <3>1 DEF Owed, PathOf, Overview, RiskReport
    <3> QED
      BY <3>1, <3>2 DEF NothingIsLeftOut, OwedInv
  <2> QED
    BY <2>1, <2>2, <2>3, <2>4
<1>3. CASE agent' = 0
  BY <1>2, <1>3 DEF OwedInv
<1>4. CASE StartSkills
  <2>1. agent' = 1 /\ step' = 1
    BY <1>4 DEF StartSkills, Enter
  <2>2. Len(Reads[Name])' \in Nat
    BY <2>1, ReadsLength, NameOf DEF Name
  <2>3. ~Writing' /\ \A a \in 1 .. 8 : ~(a < agent')
    BY <2>1, <2>2 DEF Writing
  <2> QED
    BY <1>2, <2>3 DEF OwedInv
<1>5. CASE ~StartSkills /\ agent' # 0
  <2>1. /\ agent \in 1 .. 9 /\ skillRuns' = skillRuns /\ known' = known
        /\ \/ agent' = agent /\ (Writing => Writing')
           \/ agent' = agent + 1 /\ agent \in 1 .. 8
    BY <1>1, <1>5, Advances
  <2>2. Owed' = Owed
    BY <2>1 DEF Owed, PathOf, Overview, RiskReport
  <2>3. listed \subseteq listed' /\ errors \subseteq errors'
    BY <1>5 DEF SkillsNext, SkillStep, allVars, skillVars, ReadNext, Draft, Return, AgentFails,
       Write, WriteFails, WriteManifest, SkillsCrash
  <2>4. \A x : Settled(x) => Settled(x)'
    BY <2>3 DEF Settled
  <2>5. ASSUME agent' = agent + 1, NEW x \in Owed, x[1] = Name
        PROVE  Settled(x)'
    <3>1. CASE AgentFails
      BY <2>5, <3>1 DEF AgentFails, Settled
    <3>2. CASE Return \/ Write \/ WriteFails
      <4>1. PICK rest : /\ GoOn(rest)
                        /\ \A y \in Owed : y[1] = Name =>
                              Settled(y)' \/ \E page \in Range(rest) : page.path = y
        BY <1>1, <2>1, <3>2, WritingCovers
      <4>2. rest = << >>
        BY <2>1, <2>5, <4>1 DEF GoOn
      <4> QED
        BY <2>5, <4>1, <4>2, NoneOf
    <3>3. AgentFails \/ Return \/ Write \/ WriteFails
      BY <1>5, <2>1, <2>5 DEF SkillsNext, SkillStep, allVars, skillVars, ReadNext, Draft,
         WriteManifest, SkillsCrash, Enter
    <3> QED
      BY <3>1, <3>2, <3>3
  <2>6. ASSUME NEW x \in Owed, NEW a \in 1 .. 8, a < agent', Agents[a] = x[1]
        PROVE  Settled(x)'
    <3>1. CASE a < agent
      BY <2>1, <2>4, <2>6, <3>1 DEF OwedInv
    <3>2. CASE a = agent /\ agent' = agent + 1
      BY <2>5, <2>6, <3>2 DEF Name
    <3> QED
      BY <2>1, <2>6, <3>1, <3>2
  <2>7. ASSUME Writing', NEW x \in Owed, Name' = x[1]
        PROVE  Settled(x)' \/ \E page \in Range(pages') : page.path = x
    <3>1. ~ \E a \in 0 .. 9 : Enter(a)
      <4> SUFFICES ASSUME NEW a \in 0 .. 9, Enter(a) PROVE FALSE
        OBVIOUS
      <4>1. pages' = << >>
        BY DEF Enter
      <4> QED
        BY <1>1, <2>7, <4>1 DEF SkillsType
    <3>2. CASE /\ Return \/ Write \/ WriteFails
               /\ UNCHANGED agent
      <4>1. PICK rest : /\ GoOn(rest)
                        /\ \A y \in Owed : y[1] = Name =>
                              Settled(y)' \/ \E page \in Range(rest) : page.path = y
        BY <1>1, <2>1, <3>2, WritingCovers
      <4>2. pages' = rest /\ Name' = Name
        BY <2>1, <3>2, <4>1 DEF GoOn, Enter, Name
      <4> QED
        BY <2>7, <4>1, <4>2
    <3>3. CASE ReadNext
      <4>1. step' = step + 1 /\ Name' = Name /\ step <= Len(Reads[Name]) /\ Working
        BY <3>3 DEF ReadNext, Reading, Name
      <4>2. Len(Reads[Name]) \in Nat /\ step \in Nat
        BY <1>1, <4>1, ReadsLength, NameOf, AgentNumbers DEF Working, Name, SkillsType, SkillsTypeOK
      <4> QED
        BY <2>7, <4>1, <4>2 DEF Writing
    <3>4. CASE UNCHANGED skillVars
      BY <2>1, <2>4, <2>7, <3>4 DEF OwedInv, skillVars, Writing, Working, Name
    <3>5. CASE Draft /\ UNCHANGED <<agent, step, got>>
      <4>1. Drafting /\ Name' = Name /\ step' = step /\ Working
        BY <3>5 DEF Draft, Drafting, Name
      <4>2. Len(Reads[Name]) \in Nat
        BY <4>1, ReadsLength, NameOf, AgentNumbers DEF Working, Name
      <4> QED
        BY <2>7, <4>1, <4>2 DEF Writing, Drafting
    <3> QED
      BY <1>1, <3>1, <3>2, <3>3, <3>4, <3>5, Moves
  <2> QED
    BY <1>2, <2>2, <2>6, <2>7 DEF OwedInv
<1> QED
  BY <1>3, <1>4, <1>5

(* NothingIsLeftOut: a run that comes to its manifest has written, or      *)
(* reports as failed, a page for every program, copybook and job there was *)
(* when it began (skills/orchestrator.py goes on after each failure).      *)
THEOREM RunsLeaveNothingOut == SkillsSpec => []NothingIsLeftOut
<1>1. OwedInv => NothingIsLeftOut
  BY DEF OwedInv
<1>2. SkillsInit => OwedInv
  BY DEF SkillsInit, OwedInv, NothingIsLeftOut
<1>3. ManifestInv /\ ManifestInv' /\ ReadInv /\ DraftInv /\ OwedInv /\ [SkillsNext]_allVars => OwedInv'
  BY OwedStep
<1> QED
  BY <1>1, <1>2, <1>3, RunsAlways, ReadAlways, DraftAlways, PTL DEF SkillsSpec
===============================================================================
