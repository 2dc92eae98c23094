-------------------------------- MODULE Skills --------------------------------
(***************************************************************************)
(* `brain generate-skills` (skills/*.py) beside `brain extract`: eight     *)
(* agents, one after the other, read the graph statement by statement and  *)
(* return pages, which the orchestrator writes to files; the manifest is   *)
(* the last file of a run.  An agent that raises, or a page that cannot be *)
(* written, is reported and passed over.                                   *)
(*                                                                         *)
(* Of a page the model keeps what it says of the graph: the edges it lists *)
(* in the two directions and the nodes.  The store has no business rules   *)
(* (it has not been enriched), so the agents for tests and history return  *)
(* nothing.                                                                *)
(***************************************************************************)
EXTENDS ExtractedCode, Queries

CONSTANTS
    Slug,           \* _slug: the name in a page's id
    Late,           \* bound: the files that may be extracted while it runs
    MaxSkillRuns,   \* bound: generate-skills runs
    MaxFaults       \* bound: agents and writes that fail, and processes that die

ASSUME SkillsAssumption == Late \subseteq Files /\ MaxSkillRuns \in Nat /\ MaxFaults \in Nat

VARIABLES
    agent,          \* the agent at work, 0 for none
    step,           \* its next statement
    got,            \* got[k]: what it has read of kind k
    pages,          \* its skills, before they are written
    disk,           \* the files under the output directory, by path
    listed,         \* result.skill_ids: the paths written in this run
    errors,         \* result.errors: agents, and paths of pages
    manifest,       \* manifest.json; its count of errors is left out
    skillRuns, faults,  \* how often, bounded
    known           \* observer: what the graph told when the run began

skillVars == <<agent, step, got, pages, disk, listed, errors, manifest, skillRuns, faults, known>>
allVars == <<vars, skillVars>>

-----------------------------------------------------------------------------
Agents == <<"migration", "patterns", "dependency", "copybook", "workflow", "risk", "tests", "history">>

Working == agent \in DOMAIN Agents
Name == Agents[agent]

(* The statements an agent begins with, by what it keeps of their results. *)
Reads ==
    [migration  |-> <<{"Program"}>>,
     patterns   |-> <<{"Paragraph", "tangled"}, {"Program"}, {"PERFORMS"}, {"CALLS"}>>,
     dependency |-> <<{"Program"}, {"link"}>>,
     copybook   |-> <<{"Copybook"}, {"Field"}, {"DERIVED_FROM"}, {"INCLUDES"}>>,
     workflow   |-> <<{"JCLJob"}>>,
     risk       |-> << >>, tests |-> << >>, history |-> << >>]

Links == {"CALLS", "READS", "WRITES"}
NodeKinds == {"Program", "Paragraph", "Copybook", "Field", "JCLJob"}
EdgeKinds == {"PERFORMS", "CALLS", "DERIVED_FROM", "INCLUDES", "link"}
Kinds == NodeKinds \cup {"tangled"} \cup EdgeKinds

NothingRead == [k \in Kinds |-> {}]

NodesOf(kind, ids) == {id \in ids : id.type = kind}

(* An edge of the copybook agent counts only if its source is there.       *)
Read(kind) ==
    CASE kind \in NodeKinds  -> NodesOf(kind, DOMAIN nodes)
      [] kind = "tangled"    -> {id \in NodesOf("Paragraph", DOMAIN nodes) : nodes[id].tangled}
      [] kind = "link"       -> {e \in edges : e[2] \in Links}
      [] kind = "INCLUDES"   -> {e \in edges : e[2] = kind /\ IsStored(nodes, e[1])}
      [] OTHER               -> {e \in edges : e[2] = kind}

-----------------------------------------------------------------------------
(* The pages.  `of` is the node a page is about, or the report, or Nothing *)
(* of a page that a write has emptied and not filled.                      *)
Page(path, of, out, in, rows) ==
    [path |-> path, of |-> of, out |-> out, in |-> in, rows |-> rows, run |-> skillRuns]

Nothing == MakeId("", "", "")

PathOf(id) == <<CASE id.type = "Program"  -> "dependency"
                  [] id.type = "Copybook" -> "copybook"
                  [] id.type = "JCLJob"   -> "workflow", Slug[id.name]>>

(* What the agent has a page for each of.                                  *)
Subjects ==
    CASE Name = "dependency" -> got["Program"]
      [] Name = "copybook"   -> got["Copybook"]
      [] Name = "workflow"   -> got["JCLJob"]
      [] OTHER               -> {}

(* A mutant of ProgramPage: of the neighbours only the programs are listed.*)
ProgramPageOfCalls(p) ==
    Page(PathOf(p), p, {e \in NeighborsOf(nodes, edges, p) : e[2] = "CALLS"},
         {e \in got["link"] : e[3] = p}, {})

(* A mutant of ProgramPage: Called By is looked up with the page, and what *)
(* the program calls was read with the list of programs.                   *)
ProgramPageCallsFirst(p) ==
    Page(PathOf(p), p, {e \in got["link"] : e[1] = p /\ IsStored(nodes, e[3])},
         {e \in edges : e[2] \in Links /\ e[3] = p}, {})

(* A program's page: Called By from the list of all edges that was read    *)
(* before, Calls from the graph as it is now.                              *)
ProgramPage(p) ==
    Page(PathOf(p), p, {e \in NeighborsOf(nodes, edges, p) : e[2] \in Links},
         {e \in got["link"] : e[3] = p}, {})

CopybookPage(c) ==
    Page(PathOf(c), c, {},
         {e \in got["INCLUDES"] : e[3] = c}
         \cup {e \in got["DERIVED_FROM"] : e[3] = c /\ e[1] \in got["Field"]}, {})

(* The steps next to the job, and the programs next to those.  No extractor *)
(* writes an edge from a job, so a page has neither.                       *)
JobPage(j) ==
    LET steps == {e \in NeighborsOf(nodes, edges, j) : e[3].type = "JCLStep"}
        runsOf(s) == {e \in NeighborsOf(nodes, edges, s) : e[2] = "EXECUTES" /\ e[3].type = "Program"}
    IN  Page(PathOf(j), j, steps \cup UNION {runsOf(e[3]) : e \in steps}, {}, {})

PageOf(s) ==
    CASE Name = "dependency" -> ProgramPage(s)
      [] Name = "copybook"   -> CopybookPage(s)
      [] Name = "workflow"   -> JobPage(s)

(* Paragraphs nothing performs, and programs nothing calls: not in the     *)
(* list of edges, and not when each of them is looked up again.            *)
Smells ==
    {p \in got["Paragraph"] : \A e \in got["PERFORMS"] : e[3] # p}
    \cup {p \in got["Program"] : \A e \in got["CALLS"] \cup edges : e[2] = "CALLS" => e[3] # p}

Report(path, rows) == <<Page(path, MakeId("Report", path[1], path[2]), {}, {}, rows)>>

Overview == <<"copybook", "overview">>
RiskReport == <<"risk", "risk-report">>

(* What an agent returns last: reports that are always there, and two that *)
(* are there if they have anything to tell.  Of the patterns report the    *)
(* model does not keep the list of tangled paragraphs.                     *)
Reports ==
    CASE Name = "copybook" -> Report(Overview, got["Copybook"])
      [] Name = "risk"     -> Report(RiskReport, {})
      [] Name = "migration" /\ got["Program"] # {} ->
            Report(<<"migration", "top-candidates">>, got["Program"])
      [] Name = "patterns" /\ (Smells # {} \/ got["tangled"] # {}) -> Report(<<"patterns", "report">>, Smells)
      [] OTHER -> << >>

-----------------------------------------------------------------------------
(* What pages are about and what they tell.                                *)
Told(ns, es) ==
    [ids   |-> DOMAIN ns,
     edges |-> {e \in es : e[2] \in Links \cup {"PERFORMS"}}]

(* There is none, or one that was emptied and not filled.                  *)
NoManifest == [run |-> 0, listed |-> {}]

SkillsInit ==
    /\ agent = 0 /\ step = 1 /\ got = NothingRead /\ pages = << >>
    /\ disk = << >> /\ listed = {} /\ errors = {}
    /\ manifest = NoManifest
    /\ skillRuns = 0 /\ faults = 0
    /\ known = Told(<< >>, {})

(* An agent's local variables are gone when it returns.                    *)
Enter(a) == agent' = a /\ step' = 1 /\ got' = NothingRead /\ pages' = << >>

OnlyLate(p) ==
    left[p] \subseteq Late /\ (pc[p] \in {"ask", "store", "write"} => at[p].file \in Late)

StartSkills ==
    /\ agent = 0 /\ skillRuns < MaxSkillRuns
    /\ runs = MaxRuns /\ \A p \in Processes : OnlyLate(p)
    /\ skillRuns' = skillRuns + 1
    /\ known' = Told(nodes, edges)
    /\ listed' = {} /\ errors' = {}
    /\ Enter(1)
    /\ UNCHANGED <<disk, manifest, faults>>

Reading == Working /\ step <= Len(Reads[Name])
Drafting == Working /\ step = Len(Reads[Name]) + 1
Writing == Working /\ step = Len(Reads[Name]) + 2

ReadNext ==
    /\ Reading
    /\ got' = [k \in Kinds |-> IF k \in Reads[Name][step] THEN Read(k) ELSE got[k]]
    /\ step' = step + 1
    /\ UNCHANGED <<agent, pages, disk, listed, errors, manifest, skillRuns, faults, known>>

Drafted == {pages[i].of : i \in DOMAIN pages}

(* The statements for one page are taken together.                         *)
Draft ==
    /\ Drafting
    /\ \E s \in Subjects \ Drafted : pages' = Append(pages, PageOf(s))
    /\ UNCHANGED <<agent, step, got, disk, listed, errors, manifest, skillRuns, faults, known>>

(* The pages that are still to be written; after the last, the next agent. *)
GoOn(rest) ==
    IF rest = << >> THEN Enter(agent + 1)
    ELSE /\ pages' = rest
         /\ step' = Len(Reads[Name]) + 2
         /\ got' = NothingRead
         /\ UNCHANGED agent

Return ==
    /\ Drafting /\ Subjects \subseteq Drafted
    /\ GoOn(pages \o Reports)
    /\ UNCHANGED <<disk, listed, errors, manifest, skillRuns, faults, known>>

Fault == faults < MaxFaults /\ faults' = faults + 1

(* A mutant of AgentFails: the exception ends the loop over the agents.    *)
AgentFailsForAll ==
    /\ Reading \/ Drafting
    /\ Fault
    /\ errors' = errors \cup {<<Name>>}
    /\ Enter(Len(Agents) + 1)
    /\ UNCHANGED <<disk, listed, manifest, skillRuns, known>>

(* analyze raises: all pages of the agent are lost.                        *)
AgentFails ==
    /\ Reading \/ Drafting
    /\ Fault
    /\ errors' = errors \cup {<<Name>>}
    /\ Enter(agent + 1)
    /\ UNCHANGED <<disk, listed, manifest, skillRuns, known>>

(* A mutant of On: the pages of a category go to one file.                 *)
OnCategory(page) ==
    LET file == <<page.path[1]>>
    IN  [x \in DOMAIN disk \cup {file} |-> IF x = file THEN page ELSE disk[x]]

On(page) == [x \in DOMAIN disk \cup {page.path} |-> IF x = page.path THEN page ELSE disk[x]]

(* write_text truncates the file and then fills it.  One that is cut off   *)
(* in between leaves the file as it was or says nothing any more (a page   *)
(* that is filled in part counts as empty).                                *)
Emptied(page) == Page(page.path, Nothing, {}, {}, {})

CutOff == disk' \in {disk, On(Emptied(Head(pages)))}

Write ==
    /\ Writing
    /\ disk' = On(Head(pages))
    /\ listed' = listed \cup {Head(pages).path}
    /\ GoOn(Tail(pages))
    /\ UNCHANGED <<errors, manifest, skillRuns, faults, known>>

(* A mutant of WriteFails: the id is listed before the page is written.    *)
WriteFailsListed ==
    /\ Writing
    /\ Fault
    /\ CutOff
    /\ errors' = errors \cup {Head(pages).path}
    /\ listed' = listed \cup {Head(pages).path}
    /\ GoOn(Tail(pages))
    /\ UNCHANGED <<manifest, skillRuns, known>>

(* mkdir or write_text raises.                                             *)
WriteFails ==
    /\ Writing
    /\ Fault
    /\ CutOff
    /\ errors' = errors \cup {Head(pages).path}
    /\ GoOn(Tail(pages))
    /\ UNCHANGED <<listed, manifest, skillRuns, known>>

Closing == agent = Len(Agents) + 1

WriteManifest ==
    /\ Closing
    /\ manifest' = [run |-> skillRuns, listed |-> listed]
    /\ Enter(0)
    /\ UNCHANGED <<disk, listed, errors, skillRuns, faults, known>>

(* The process dies, or the manifest cannot be written.                    *)
SkillsCrash ==
    /\ agent # 0
    /\ Fault
    /\ IF Writing THEN CutOff ELSE UNCHANGED disk
    /\ manifest' \in {manifest} \cup IF Closing THEN {NoManifest} ELSE {}
    /\ Enter(0)
    /\ UNCHANGED <<listed, errors, skillRuns, known>>

SkillStep ==
    \/ StartSkills \/ ReadNext \/ Draft \/ Return \/ AgentFails
    \/ Write \/ WriteFails \/ WriteManifest \/ SkillsCrash

SkillsNext ==
    \/ SkillStep /\ UNCHANGED vars
    \/ Next /\ UNCHANGED skillVars

SkillsSpec == Init /\ SkillsInit /\ [][SkillsNext]_allVars

-----------------------------------------------------------------------------
(* Properties.                                                             *)

OnDisk == {disk[x] : x \in DOMAIN disk}

SkillsTypeOK ==
    /\ agent \in 0 .. Len(Agents) + 1
    /\ Working => step \in 1 .. Len(Reads[Name]) + 2
    /\ DOMAIN got = Kinds
    /\ \A x \in DOMAIN disk : disk[x].path = x
    /\ manifest.run \in 0 .. skillRuns

(* Pages of one run agree: who is called by a program says so on its own   *)
(* page, although the two lists are read at different times while an       *)
(* extraction adds edges.                                                  *)
CallersAreCalls ==
    \A a, b \in OnDisk : a.run = b.run =>
        \A e \in b.in : e[2] = "CALLS" /\ e[1] = a.of => e \in a.out

(* What the manifest lists is there, from its run or a later one that died *)
(* before it had a manifest, though a write that was cut off may have      *)
(* emptied it; and what its run wrote is listed.                           *)
ManifestIsTrue ==
    /\ \A x \in manifest.listed : x \in DOMAIN disk /\ disk[x].run >= manifest.run
    /\ \A page \in OnDisk :
          page.run = manifest.run /\ page.of # Nothing => page.path \in manifest.listed

(* A run that comes to its manifest has a page for each program, copybook  *)
(* and job that was in the graph when it began, and its two standing       *)
(* reports, but for what it returns as failed: one agent's failure costs   *)
(* no other agent's pages, and one page's no other page.                   *)
Owed == {PathOf(id) : id \in {i \in known.ids : i.type \in {"Program", "Copybook", "JCLJob"}}}
            \cup {Overview, RiskReport}

NothingIsLeftOut ==
    manifest.run = skillRuns /\ skillRuns > 0 =>
        \A x \in Owed : x \in manifest.listed \cup errors \/ <<x[1]>> \in errors

(* A program's page says what `query` says of it, calls, tables and files, *)
(* but perhaps not what has been extracted since the run began; and what   *)
(* stands on the patterns page as never called was not called then.        *)
PagesAgreeWithQueries ==
    \A page \in OnDisk :
        /\ page.of.type = "Program" =>
              LET told == page.out \cup page.in
                  calls == {e \in page.in : e[2] = "CALLS"}
              IN  /\ told \subseteq Touching(nodes, edges, page.of)
                  /\ calls \subseteq Invokers(nodes, edges, page.of)
                  /\ page.run = skillRuns =>
                        {e \in Touching(nodes, known.edges, page.of) :
                            e[2] \in Links /\ e[1] \in known.ids /\ e[3] \in known.ids} \subseteq told
        /\ page.path[1] = "patterns" /\ page.run = skillRuns =>
              \A e \in known.edges : e[2] \in {"CALLS", "PERFORMS"} => e[3] \notin page.rows
===============================================================================
