----------------------------- MODULE ExtractedCode -----------------------------
(***************************************************************************)
(* `brain extract` over a given code base: Extraction with the output of   *)
(* Extractors, and what the graph then says about the code.                *)
(***************************************************************************)
EXTENDS Extraction, Extractors

CONSTANT Code       \* the artifact in each file

ASSUME CodeAssumption ==
    /\ Code \in [Files -> Artifact]
    /\ Output = [f \in Files |-> Results(Code[f])]

CobolFiles == {f \in Files : Code[f].kind = "cobol"}

(* The edges that start at another program than the source's, because     *)
(* their extractor found another PROGRAM-ID in it than the COBOL extractor.*)
MisreadIn(a) ==
    (IF ScreenProgram(a) = ProgramName(a) THEN {} ELSE ToSet(ScreenEdges(a)))
    \cup (IF FileProgram(a) = ProgramName(a) THEN {} ELSE ToSet(VsamEdges(a)))

Misread == UNION {MisreadIn(Code[f]) : f \in CobolFiles}

(* It has a source, or a CALL or an EXEC PGM leads to it.                  *)
IsProgram(id) ==
    \/ \E f \in CobolFiles : id = ProgramId(ProgramName(Code[f]))
    \/ \E e \in edges : e[2] \in {"CALLS", "EXECUTES"} /\ e[3] = id

(* Which edges start at a node: all but those of a screen or of a file     *)
(* whose extractor (cics_bms/extractor.py:160, vsam/extractor.py:54)       *)
(* searched the source for the PROGRAM-ID and came to another name than    *)
(* the COBOL extractor, and these too if that name is a program's by       *)
(* chance.                                                                 *)
SourcesAreNodes ==
    complete => \A e \in edges :
        IsStored(nodes, e[1]) <=> e \notin Misread \/ IsProgram(e[1])

(* Call chains lead from node to node: wherever a run is, or was when it   *)
(* died, both ends of a CALL and of an EXEC PGM are in the graph with the  *)
(* edge, what is called as its source's node or as a placeholder.          *)
CallsAreConnected ==
    \A e \in edges : e[2] \in {"CALLS", "EXECUTES"} =>
        IsStored(nodes, e[1]) /\ IsStored(nodes, e[3])

(* The names after EXEC PGM in the decks, as they are written.             *)
ExecNames ==
    UNION {{Code[f].cards[i].program : i \in DOMAIN Code[f].cards} :
              f \in {g \in Files : Code[g].kind = "jcl"}}

(* A program is one node, whoever names it first, its source, a CALL or an *)
(* EXEC PGM (three regular expressions, in two extractors): only a deck    *)
(* that does not write EXEC PGM in capitals splits it in two, for the JCL  *)
(* extractor keeps the name as written (jcl/extractor.py:296).             *)
ProgramsAreOne ==
    \A a, b \in DOMAIN nodes :
        /\ a.type = "Program" /\ b.type = "Program"
        /\ a # b /\ Upper[a.name] = Upper[b.name]
        => \E c \in {a.name, b.name} : c \in ExecNames /\ Upper[c] # c

(* A placeholder stands for a program whose source is not in the code      *)
(* base; docs/MIGRATIONS.md:9 speaks of "`placeholder: True` Program nodes *)
(* for unresolved `CALL`/`EXEC PGM` targets".                              *)
PlaceholderIsUnresolved ==
    complete => \A f \in CobolFiles : nodes[ProgramId(ProgramName(Code[f]))].by = "cobol"

Triggers == UNION {{Code[f].triggers[i] : i \in DOMAIN Code[f].triggers} :
                      f \in {g \in Files : Code[g].kind = "sql"}}

(* A chain is "resolved when target trigger is registered"                 *)
(* (extractors/triggers/extractor.py:211): from then on the store gives    *)
(* the trigger that is fired as a neighbour of the one that fires it.      *)
ChainIsResolved ==
    complete => \A t, u \in Triggers :
        ~t.nocascade /\ (\E i \in DOMAIN t.dml : t.dml[i] = <<u.table, u.event>>) =>
            Edge(TriggerId(t.name), "TRIGGERS_TRIGGER", TriggerId(u.name)) \in edges
================================================================================
