------------------------------ MODULE Extractors ------------------------------
(***************************************************************************)
(* What each extractor returns for one artifact (extractors/*/extractor.py)*)
(* and which extractors handle it, in the order of the registry.  An       *)
(* artifact is given by what the extractors' regular expressions find in   *)
(* it; the order of the nodes matters, for a later node replaces an        *)
(* earlier one with the same id.                                           *)
(*                                                                         *)
(* Of a node the model keeps the id, the extractor or the kind of mention  *)
(* that made it (`by`), how much of it was parsed (`conf`: "full",         *)
(* "partial", or "none" for a placeholder), of a JCL step its job, and of  *)
(* a paragraph whether GO TOs make up more than half of it (`tangled`).    *)
(* Logical units are only counted by the code and are left out.            *)
(***************************************************************************)
EXTENDS Naturals, Sequences, SequencesExt

CONSTANT Upper      \* str.upper(), on the names in the artifacts

Names == DOMAIN Upper

ASSUME UpperAssumption == \A s \in Names : Upper[s] \in Names /\ Upper[Upper[s]] = Upper[s]

(* make_node_id; a name with a dot in it is the pair of its parts.         *)
MakeId(type, owner, name) == [type |-> type, owner |-> owner, name |-> name]

Node(id, by, conf) == [id |-> id, by |-> by, conf |-> conf, job |-> "", tangled |-> FALSE]

Confidence(partial) == IF partial THEN "partial" ELSE "full"

Edge(src, type, dst) == <<src, type, dst>>

OrElse(name, default) == IF name = "" THEN default ELSE name

Each(Op(_), s) == [i \in DOMAIN s |-> Op(s[i])]

Only(Test(_), s) == FlattenSeq(Each(LAMBDA x : IF Test(x) THEN <<x>> ELSE << >>, s))

-----------------------------------------------------------------------------
(* COBOL sources.  Three extractors read a source, and each looks for the  *)
(* PROGRAM-ID by itself: `program` is what the COBOL extractor finds in    *)
(* the code, `screenProgram` and `fileProgram` what the CICS and the VSAM  *)
(* extractor find in the raw text, where it may stand in a comment; a      *)
(* blank before the dot suits the last one alone.  Each is "" if nothing   *)
(* is found.  `stem` is the file's name; `lead` are the PERFORMs before    *)
(* the first paragraph and `leadCall` says that a CALL precedes it;        *)
(* `calls` and `copies` are the CALL and COPY statements; `reads` and      *)
(* `writes` the tables of the EXEC SQL blocks, `unended` that one has no   *)
(* END-EXEC; `files` the SELECT clauses with their verbs; `maps` the maps  *)
(* of EXEC CICS SEND and RECEIVE.                                          *)

CobolSource == [
    kind : {"cobol"}, stem : Names, program : Names, screenProgram : Names, fileProgram : Names,
    unended : BOOLEAN, lead : Seq(Names), leadCall : BOOLEAN,
    paras : Seq([name : Names, performs : Seq(Names), gotos : Seq(Names), statements : Nat]),
    fields : Seq([name : Names, partial : BOOLEAN]),
    calls : Seq(Names), copies : Seq(Names), reads : Seq(Names), writes : Seq(Names),
    files : Seq([name : Names, vsam : BOOLEAN, org : BOOLEAN, read : BOOLEAN, written : BOOLEAN]),
    maps : Seq(Names)]

(* A mutant of ProgramName: the program as the source has it.              *)
ProgramNameAsWritten(a) == OrElse(a.program, a.stem)

ProgramName(a) == Upper[OrElse(a.program, a.stem)]
ScreenProgram(a) == Upper[OrElse(a.screenProgram, a.stem)]
FileProgram(a) == OrElse(a.fileProgram, "unknown")

ProgramId(name) == MakeId("Program", "", name)
TableId(name) == MakeId("DB2Table", "", name)

(* What precedes the first paragraph belongs to it, or to a MAIN made up   *)
(* for it.                                                                 *)
ParasOf(a) ==
    IF a.lead = << >> /\ ~a.leadCall THEN a.paras
    ELSE LET host == [name |-> "MAIN", performs |-> << >>, gotos |-> << >>, statements |-> 0]
             paras == IF a.paras = << >> THEN <<host>> ELSE a.paras
         IN  [paras EXCEPT ![1].performs = @ \o a.lead]

ParaId(a, name) == MakeId("Paragraph", ProgramName(a), name)

(* goto_density > 0.5, a paragraph counting as one statement at least.     *)
Tangled(q) == 2 * Len(q.gotos) > IF q.statements = 0 THEN 1 ELSE q.statements

ParaNode(a, q) == [Node(ParaId(a, q.name), "cobol", "full") EXCEPT !.tangled = Tangled(q)]

(* Tables are created on demand, whether or not the DDL has them.          *)
TablesOnDemand(a) ==
    LET onlyWritten == Only(LAMBDA t : t \notin ToSet(a.reads), a.writes)
    IN  Each(LAMBDA t : Node(TableId(t), "exec_sql", "full"), a.reads \o onlyWritten)

(* A mutant of CalleesOf: the placeholder has the name as the CALL has it. *)
CalleesAsWritten(a) ==
    LET others == Only(LAMBDA c : Upper[c] # ProgramName(a), a.calls)
    IN  Each(LAMBDA c : Node(ProgramId(c), "call", "none"), others)

(* A program that is called gets a placeholder, also when its source has   *)
(* been extracted.                                                         *)
CalleesOf(a) ==
    LET others == Only(LAMBDA c : Upper[c] # ProgramName(a), a.calls)
    IN  Each(LAMBDA c : Node(ProgramId(Upper[c]), "call", "none"), others)

CobolNodes(a) ==
    <<Node(ProgramId(ProgramName(a)), "cobol",
           Confidence(a.unended \/ \E i \in DOMAIN a.fields : a.fields[i].partial))>>
    \o Each(LAMBDA q : ParaNode(a, q), ParasOf(a))
    \o Each(LAMBDA d : Node(MakeId("Field", ProgramName(a), d.name), "cobol",
                            Confidence(d.partial)), a.fields)
    \o CalleesOf(a)
    \o TablesOnDemand(a)

(* PERFORM of a paragraph that the program does not have is an edge of the *)
(* program to an id without a node; such a GO TO is dropped.               *)
FlowEdges(a) ==
    LET names == {ParasOf(a)[i].name : i \in DOMAIN ParasOf(a)}
        Flow(q) ==
            Each(LAMBDA t : Edge(IF Upper[t] \in names THEN ParaId(a, q.name)
                                 ELSE ProgramId(ProgramName(a)),
                                 "PERFORMS", ParaId(a, Upper[t])), q.performs)
            \o Each(LAMBDA t : Edge(ParaId(a, q.name), "PERFORMS", ParaId(a, Upper[t])),
                    Only(LAMBDA t : Upper[t] \in names, q.gotos))
    IN  FlattenSeq(Each(Flow, ParasOf(a)))

CobolEdges(a) ==
    LET program == ProgramId(ProgramName(a))
    IN  FlowEdges(a)
        \o Each(LAMBDA c : Edge(program, "CALLS", ProgramId(Upper[c])), a.calls)
        \o Each(LAMBDA c : Edge(program, "INCLUDES", MakeId("Copybook", "", Upper[c])), a.copies)
        \o Each(LAMBDA t : Edge(program, "READS", TableId(t)), a.reads)
        \o Each(LAMBDA t : Edge(program, "WRITES", TableId(t)), a.writes)

(* The files of the same source, from an extractor of its own.             *)
FileId(d) == MakeId(IF d.vsam THEN "VSAMDataset" ELSE "Dataset", "", d.name)

VsamNodes(a) == Each(LAMBDA d : Node(FileId(d), "vsam", Confidence(~d.org)), a.files)

VsamEdges(a) ==
    LET program == ProgramId(FileProgram(a))
    IN  Each(LAMBDA d : Edge(program, "READS", FileId(d)), Only(LAMBDA d : d.read, a.files))
        \o Each(LAMBDA d : Edge(program, "WRITES", FileId(d)),
                Only(LAMBDA d : d.written, a.files))

(* A mutant of ScreenEdges: the program is called after its file.          *)
ScreenEdgesOfFile(a) ==
    Each(LAMBDA m : Edge(ProgramId(Upper[a.stem]), "RENDERS_ON", MakeId("CICSMap", "", Upper[m])),
         a.maps)

(* The screens it shows: edges alone, the program is the COBOL extractor's.*)
ScreenEdges(a) ==
    Each(LAMBDA m : Edge(ProgramId(ScreenProgram(a)), "RENDERS_ON", MakeId("CICSMap", "", Upper[m])),
         a.maps)

-----------------------------------------------------------------------------
(* BMS mapsets and copybooks.                                              *)

Mapsets == [kind : {"bms"}, mapsets : Seq([name : Names, partial : BOOLEAN])]

MapNodes(a) ==
    Each(LAMBDA m : Node(MakeId("CICSMap", "", m.name), "cics_bms", Confidence(m.partial)), a.mapsets)

Copybook == [kind : {"copybook"}, stem : Names, fields : Seq([name : Names, partial : BOOLEAN])]

(* A field that does not parse makes the copybook partial as well.         *)
CopybookNodes(a) ==
    LET name == Upper[a.stem]
        partial == \E i \in DOMAIN a.fields : a.fields[i].partial
    IN  <<Node(MakeId("Copybook", "", name), "copybook", Confidence(partial))>>
        \o Each(LAMBDA d : Node(MakeId("Field", name, d.name), "copybook", Confidence(d.partial)),
                a.fields)

-----------------------------------------------------------------------------
(* DB2: tables, indexes, views, triggers and procedures of one file.  A    *)
(* constraint has its declared name or the one the extractor derives; a    *)
(* foreign key that cascades names the table it refers to.                 *)

SqlSource == [
    kind : {"sql"},
    tables : Seq([name : Names, columns : Seq(Names), 
                  constraints : Seq([name : Names, partial : BOOLEAN]),
                  cascades : Seq(Names), partial : BOOLEAN]),
    indexes : Seq(Names),
    views : Seq([name : Names, tables : Seq(Names)]),
    triggers : Seq([name : Names, table : Names, event : Names, nocascade : BOOLEAN,
                    dml : Seq(Names \X Names), partial : BOOLEAN]),
    procs : Seq([name : Names, calls : Seq(Names), reads : Seq(Names), writes : Seq(Names),
                 partial : BOOLEAN])]

ConstraintNode(name, partial) ==
    Node(MakeId("Constraint", "", name), "db2_ddl", Confidence(partial))

DdlNodes(a) ==
    LET TableNodes(t) ==
            Each(LAMBDA c : Node(MakeId("DB2Column", t.name, c), "db2_ddl", "full"), t.columns)
            \o Each(LAMBDA c : ConstraintNode(c.name, c.partial), t.constraints)
            \o <<Node(TableId(t.name), "db2_ddl", Confidence(t.partial))>>
        ViewNode(v) == Node(MakeId("View", "", v.name), "db2_ddl", Confidence(v.tables = << >>))
    IN  FlattenSeq(Each(TableNodes, a.tables))
        \o Each(LAMBDA x : ConstraintNode(x, TRUE), a.indexes)
        \o Each(ViewNode, a.views)

DdlEdges(a) ==
    LET Cascades(t) == Each(LAMBDA r : Edge(TableId(t.name), "CASCADES_TO", TableId(r)), t.cascades)
        Abstracts(v) == Each(LAMBDA t : Edge(MakeId("View", "", v.name), "ABSTRACTS", TableId(t)),
                             v.tables)
    IN  FlattenSeq(Each(Cascades, a.tables)) \o FlattenSeq(Each(Abstracts, a.views))

TriggerId(name) == MakeId("Trigger", "", name)

(* The id a chain is given when the trigger it fires is not known: the     *)
(* table and the event, never a trigger's name.                            *)
FiredId(table, event) == MakeId("Trigger", table, event)

TriggerNodes(a) ==
    Each(LAMBDA t : Node(TriggerId(t.name), "trigger", Confidence(t.partial)), a.triggers)

(* A trigger fires on its table and, unless it says NO CASCADE, whatever   *)
(* the statements of its body fire on other tables.                        *)
TriggerEdges(a) ==
    LET FiresOn(t) == IF t.table = "" THEN << >>
                      ELSE <<Edge(TriggerId(t.name), "FIRES_ON", TableId(t.table))>>
        Chain(t) == IF t.nocascade THEN << >>
                    ELSE Each(LAMBDA d : Edge(TriggerId(t.name), "TRIGGERS_TRIGGER",
                                              FiredId(d[1], d[2])),
                              Only(LAMBDA d : Upper[d[1]] # Upper[t.table], t.dml))
    IN  FlattenSeq(Each(LAMBDA t : FiresOn(t) \o Chain(t), a.triggers))

ProcId(name) == MakeId("StoredProcedure", "", name)

ProcNodes(a) ==
    Each(LAMBDA q : Node(ProcId(q.name), "sql_pl", Confidence(q.partial)), a.procs)

ProcEdges(a) ==
    LET Of(q) ==
            Each(LAMBDA c : Edge(ProcId(q.name), "INVOKES_PROC", ProcId(c)),
                 Only(LAMBDA c : Upper[c] # Upper[q.name], q.calls))
            \o Each(LAMBDA t : Edge(ProcId(q.name), "WRITES", TableId(t)), q.writes)
            \o Each(LAMBDA t : Edge(ProcId(q.name), "READS", TableId(t)), q.reads)
    IN  FlattenSeq(Each(Of, a.procs))

-----------------------------------------------------------------------------
(* JCL: the cards of a deck in order.  A card that is no JCL is an         *)
(* anomaly; `program` and `dsn` are "" when the operand is missing.        *)

Card == [verb : {"JOB", "EXEC", "DD", "other"}, anomaly : BOOLEAN, name : Names,
         program : Names, dsn : Names, disp : {"", "SHR", "OLD", "NEW", "MOD"},
         delete : BOOLEAN]

JclSource == [kind : {"jcl"}, cards : Seq(Card)]

StepId(name) == MakeId("JCLStep", "", name)
DatasetId(name) == MakeId("Dataset", "", name)

JobCard(s, c) ==
    LET name == OrElse(c.name, "UNKNOWN")
    IN  [s EXCEPT !.job = name, !.step = "",
                  !.nodes = Append(@, Node(MakeId("JCLJob", "", name), "jcl", "full"))]

(* A step's id is its name, whatever its job; the program it runs gets a   *)
(* placeholder, also when its source has been extracted.                   *)
ExecCard(s, c) ==
    LET name == OrElse(c.name, "ANONSTEP")
        this == [Node(StepId(name), "jcl", "full") EXCEPT !.job = s.job]
        executes == c.program # ""
        program == ProgramId(c.program)
    IN  [s EXCEPT !.step = name,
                  !.nodes = @ \o IF executes THEN <<this, Node(program, "exec", "none")>> ELSE <<this>>,
                  !.edges = @ \o IF executes THEN <<Edge(StepId(name), "EXECUTES", program)>> ELSE << >>]

(* A data set is one node per deck; what a step does to it follows from    *)
(* the disposition.                                                        *)
DDCard(s, c) ==
    LET reads == c.disp \in {"SHR", "OLD"} \/ (c.disp = "MOD" /\ c.delete)
        writes == c.disp \in {"NEW", "MOD"}
        data == DatasetId(c.dsn)
        seen == \E i \in DOMAIN s.nodes : s.nodes[i].id = data
    IN  IF s.step = "" \/ c.dsn = "" THEN s
        ELSE [s EXCEPT
                !.nodes = @ \o IF seen THEN << >> ELSE <<Node(data, "jcl", "full")>>,
                !.edges = @ \o (IF reads THEN <<Edge(StepId(s.step), "READS", data)>> ELSE << >>)
                            \o (IF writes THEN <<Edge(StepId(s.step), "WRITES", data)>> ELSE << >>)]

(* An anomaly is kept as a step that is only partly known; the step before *)
(* it goes on.                                                             *)
Anomaly(s, c) ==
    [s EXCEPT !.nodes = Append(@, Node(StepId(OrElse(c.name, "ANOMALY")), "jcl", "partial"))]

ReadCard(s, c) ==
    CASE c.anomaly                         -> Anomaly(s, c)
      [] ~c.anomaly /\ c.verb = "JOB"      -> JobCard(s, c)
      [] ~c.anomaly /\ c.verb = "EXEC"     -> ExecCard(s, c)
      [] ~c.anomaly /\ c.verb = "DD"       -> DDCard(s, c)
      [] ~c.anomaly /\ c.verb = "other"    -> s

Deck(a) ==
    LET read[i \in 0 .. Len(a.cards)] ==
            IF i = 0 THEN [job |-> "", step |-> "", nodes |-> << >>, edges |-> << >>]
            ELSE ReadCard(read[i - 1], a.cards[i])
    IN  read[Len(a.cards)]

-----------------------------------------------------------------------------
Artifact == CobolSource \cup Mapsets \cup Copybook \cup SqlSource \cup JclSource

Returned(ns, es) == [nodes |-> ns, edges |-> es]

(* The results for an artifact, in the order of the registry: the          *)
(* extractors' packages by name (cics_bms, cobol, copybook, db2_ddl, jcl,  *)
(* sql_pl, triggers, vsam); the stubs handle nothing.                      *)
Results(a) ==
    CASE a.kind = "cobol" ->
            (IF a.maps = << >> THEN << >> ELSE <<Returned(<< >>, ScreenEdges(a))>>)
            \o <<Returned(CobolNodes(a), CobolEdges(a)), Returned(VsamNodes(a), VsamEdges(a))>>
      [] a.kind = "bms" -> <<Returned(MapNodes(a), << >>)>>
      [] a.kind = "copybook" -> <<Returned(CopybookNodes(a), << >>)>>
      [] a.kind = "jcl" -> <<Returned(Deck(a).nodes, Deck(a).edges)>>
      [] a.kind = "sql" ->
            (IF <<a.tables, a.indexes, a.views, a.procs, a.triggers>> = <<<<>>, <<>>, <<>>, <<>>, <<>>>>
             THEN << >> ELSE <<Returned(DdlNodes(a), DdlEdges(a))>>)
            \o (IF a.procs = << >> THEN << >> ELSE <<Returned(ProcNodes(a), ProcEdges(a))>>)
            \o (IF a.triggers = << >> THEN << >> ELSE <<Returned(TriggerNodes(a), TriggerEdges(a))>>)
===============================================================================
