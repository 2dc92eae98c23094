---------------------------- MODULE MCExtractedCode ----------------------------
(* Small code bases for TLC.                                                *)
EXTENDS ExtractedCode

MCNames == {"", "A", "B", "D", "F", "G", "J", "M", "O", "P", "Q", "R", "S", "T", "U", "V",
            "TR1", "TR2", "INSERT", "MAIN", "OLD", "OVERVIEW", "SUB", "main", "overview", "sub"}

MCUpper == [s \in MCNames |->
    CASE s = "main" -> "MAIN" [] s = "sub" -> "SUB" [] s = "overview" -> "OVERVIEW" [] OTHER -> s]

NoCobol == [kind |-> "cobol", stem |-> "", program |-> "", screenProgram |-> "", fileProgram |-> "",
    unended |-> FALSE, lead |-> << >>, leadCall |-> FALSE, paras |-> << >>, fields |-> << >>,
    calls |-> << >>, copies |-> << >>, reads |-> << >>, writes |-> << >>, files |-> << >>, maps |-> << >>]

VsamFile(name) == [name |-> name, vsam |-> TRUE, org |-> TRUE, read |-> TRUE, written |-> FALSE]

\* a program that calls another one, reads a file and shows a map
MainSource == [NoCobol EXCEPT !.stem = "A", !.program = "MAIN", !.screenProgram = "MAIN",
    !.fileProgram = "MAIN", !.calls = <<"sub">>, !.files = <<VsamFile("F")>>, !.maps = <<"M">>]

\* a program with a PROGRAM-ID in a comment alone, that names a table, includes
\* a copybook, reads a file and shows a map; its paragraph is a GO TO
SubSource == [NoCobol EXCEPT !.stem = "sub", !.screenProgram = "OLD", !.fileProgram = "OLD",
    !.lead = <<"B">>, !.reads = <<"T">>,
    !.paras = <<[name |-> "A", performs |-> << >>, gotos |-> <<"A">>, statements |-> 1]>>,
    !.copies = <<"overview">>, !.files = <<VsamFile("G")>>, !.maps = <<"M">>]

Blank == [verb |-> "other", anomaly |-> FALSE, name |-> "", program |-> "", dsn |-> "",
          disp |-> "", delete |-> FALSE]

\* a job that runs the first program twice, once in small letters, and makes a
\* data set
Job == [kind |-> "jcl", cards |-> <<
    [Blank EXCEPT !.verb = "JOB", !.name = "J"],
    [Blank EXCEPT !.verb = "EXEC", !.name = "S", !.program = "MAIN"],
    [Blank EXCEPT !.verb = "EXEC", !.name = "R", !.program = "main"],
    [Blank EXCEPT !.verb = "DD", !.name = "O", !.dsn = "D", !.disp = "MOD", !.delete = TRUE]>>]

NoSql == [kind |-> "sql", tables |-> << >>, indexes |-> << >>, views |-> << >>,
          triggers |-> << >>, procs |-> << >>]

\* two tables; a trigger on the first changes the second, which has one too
Ddl == [NoSql EXCEPT
    !.tables = <<[name |-> "T", columns |-> <<"A">>, constraints |-> << >>,
                  cascades |-> <<"U">>, partial |-> FALSE]>>,
    !.views = <<[name |-> "V", tables |-> <<"T">>]>>,
    !.triggers = <<[name |-> "TR1", table |-> "T", event |-> "INSERT", nocascade |-> FALSE,
                    dml |-> <<<<"U", "INSERT">>>>, partial |-> FALSE],
                   [name |-> "TR2", table |-> "U", event |-> "INSERT", nocascade |-> TRUE,
                    dml |-> << >>, partial |-> FALSE]>>,
    !.procs = <<[name |-> "P", calls |-> <<"Q">>, reads |-> <<"T">>, writes |-> << >>,
                 partial |-> FALSE]>>]

\* a copybook whose page has the name of the report on all copybooks
Records == [kind |-> "copybook", stem |-> "overview", fields |-> <<[name |-> "A", partial |-> TRUE]>>]

Screens == [kind |-> "bms", mapsets |-> <<[name |-> "M", partial |-> FALSE]>>]

MCCode == [f \in Files |->
    CASE f = "main.cbl" -> MainSource
      [] f = "sub.cob"  -> SubSource
      [] f = "run.jcl"  -> Job
      [] f = "db.ddl"   -> Ddl
      [] f = "overview.cpy"  -> Records
      [] f = "m.bms"    -> Screens]

\* a table: merged with the empty function, TLC evaluates it once
MCResults == [f \in Files |-> Results(Code[f])] @@ << >>
MCOutput == MCResults
AllResults == UNION {ToSet(MCOutput[f]) : f \in Files}
MCNodes == UNION {ToSet(r.nodes) : r \in AllResults}
MCEdges == UNION {ToSet(r.edges) : r \in AllResults}

\* What a state is told apart by.  Of the nodes the properties look at the ids
\* and at which paragraphs are tangled; the history of the writes, the order of
\* the files and the place of a process that is between two files are of no
\* consequence for what comes later.
MCView ==
    <<[id \in DOMAIN nodes |-> nodes[id].tangled], edges, pc, left,
      [p \in Processes |-> IF pc[p] \in {"ask", "store", "write"} THEN at[p] ELSE << >>],
      counters, clean, complete>>
================================================================================
