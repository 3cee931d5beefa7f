---------------------------- MODULE SymbolIndex ----------------------------
(***************************************************************************)
(* The whole-repo symbol index (src/index): what is read out of a source   *)
(* file, and the tables that hold it.  A push webhook re-reads the files   *)
(* it added or modified, one transaction per file, then brings the file's  *)
(* embeddings up to date.  Tasks of several pushes run beside each other.  *)
(*                                                                         *)
(* The push branch (bot/mod.rs 608-686) is the only caller of reindex_file *)
(* and no push of GitHub reaches it, for its payload cannot be read (see   *)
(* Intake).  This is the code as it is written for the pushes that do.     *)
(*                                                                         *)
(* A syntax tree is the sequence of its definitions, imports and calls,    *)
(* each with the position of the innermost definition around it (0 : none).*)
(* A name is a tuple: a method's begins with its owner's.                  *)
(***************************************************************************)
EXTENDS Integers, FiniteSets, Sequences

CONSTANTS
    Nothing,
    Path,           \* source files of the languages that are indexed
    Version,        \* pushed commits
    Tree,           \* Tree[v][p] : the syntax tree of file p at v, or Nothing
    Touched,        \* Touched[v] : what the commits of the push added or modified
    Indexer,        \* tasks that may run for a push
    Semantic,       \* semantic_index, and a provider of embeddings
    MaxPushes       \* bound: pushes

\* Who calls is a definition of the same file: extract_file has it on its stack.
ASSUME IndexAssumption ==
    /\ Nothing \notin Version
    /\ \A v \in Version : Touched[v] \subseteq Path
    /\ \A v \in Version, p \in Path : Tree[v][p] # Nothing =>
          \A i \in 1..Len(Tree[v][p]) :
              LET n == Tree[v][p][i]
              IN  n.kind = "call" /\ n.in # 0 =>
                      /\ n.in \in 1..Len(Tree[v][p])
                      /\ Tree[v][p][n.in].kind \in {"function", "method", "class"}

VARIABLES
    symbols,        \* repo_symbols : rows [path, name, line]
    edges,          \* repo_edges : <<from, to, kind>>, whose file nobody remembers
    embedded,       \* the rows of repo_symbol_embeddings, by the same key
    at, todo, file, \* per task : its statement, files to do, the one under way
    seenSymbols, seenEdges, \* per task : what its DELETEs take away
    fetched,        \* as history : the version each file was last indexed at, or Nothing
    clash,          \* as history : files whose transactions overlapped
    pushes          \* what is left of the bound

indexVars == <<symbols, edges, embedded, at, todo, file, seenSymbols, seenEdges,
               fetched, clash, pushes>>

-----------------------------------------------------------------------------
\* index/extract.rs.

\* What a definition is called inside what surrounds it.
Qualified(tree) ==
    LET name[i \in 1..Len(tree)] ==
          LET n == tree[i]
          IN  IF n.kind = "method" /\ n.in # 0 THEN Append(name[n.in], n.name)
              ELSE <<n.name>>
    IN  name

Definitions == {"function", "method", "class", "const"}

Symbols(p, tree) ==
    LET name == Qualified(tree)
    IN  {[path |-> p, name |-> name[i], line |-> tree[i].line] :
            i \in {j \in 1..Len(tree) : tree[j].kind \in Definitions \cup {"import"}}}

\* A call counts when there is something around it that calls.
Edges(p, tree) ==
    LET name == Qualified(tree)
        of(kinds) == {i \in 1..Len(tree) : tree[i].kind \in kinds}
    IN  {<< <<p>>, name[i], "DEFINES">> : i \in of(Definitions)}
          \cup {<< <<p>>, name[i], "IMPORTS">> : i \in of({"import"})}
          \cup {<<name[tree[i].in], <<tree[i].name>>, "CALLS">> :
                    i \in {j \in of({"call"}) : tree[j].in # 0}}
          \cup UNION {{<<name[i], <<b>>, "EXTENDS">> : b \in tree[i].bases} : i \in of({"class"})}

-----------------------------------------------------------------------------
RowsOf(p, rows) == {r \in rows : r.path = p}

\* Mutant: the symbols are gone when the edges' subquery looks for them.
EdgesAfterSymbols(p) == {e \in edges : e[1] = <<p>>}

\* What replace_file_index deletes of the edges: they go by name, whoever's they are.
EdgesFrom(p) ==
    {e \in edges : e[1] = <<p>> \/ \E r \in RowsOf(p, symbols) : e[1] = r.name}

IndexInit ==
    /\ symbols = {} /\ edges = {} /\ embedded = {}
    /\ at = [t \in Indexer |-> "idle"]
    /\ todo = [t \in Indexer |-> {}]
    /\ file = [t \in Indexer |-> Nothing]
    /\ seenSymbols = [t \in Indexer |-> {}]
    /\ seenEdges = [t \in Indexer |-> {}]
    /\ fetched = [p \in Path |-> Nothing]
    /\ clash = {}
    /\ pushes = MaxPushes

tables == <<symbols, edges, embedded>>

\* To statement label of the task; the file under way is <<path, version>>.
Proceed(t, label) == at' = [at EXCEPT ![t] = label]

\* A push begins: branch and order of pushes do not matter to it.
StartPush(t, v) ==
    /\ pushes > 0 /\ pushes' = pushes - 1
    /\ at[t] = "idle" /\ Touched[v] # {}
    /\ todo' = [todo EXCEPT ![t] = {<<p, v>> : p \in Touched[v]}]
    /\ Proceed(t, "fetch")
    /\ UNCHANGED <<tables, file, seenSymbols, seenEdges, fetched, clash>>

\* On with the next file, or to the end.
NextFile(t, rest) ==
    /\ todo' = [todo EXCEPT ![t] = rest]
    /\ file' = [file EXCEPT ![t] = Nothing]
    /\ seenSymbols' = [seenSymbols EXCEPT ![t] = {}]
    /\ seenEdges' = [seenEdges EXCEPT ![t] = {}]
    /\ Proceed(t, IF rest = {} THEN "idle" ELSE "fetch")

\* The file at the pushed commit; one that cannot be read is passed over.
Fetch(t) ==
    /\ at[t] = "fetch"
    /\ \E f \in todo[t] :
          IF Tree[f[2]][f[1]] # Nothing
          THEN /\ file' = [file EXCEPT ![t] = f]
               /\ Proceed(t, "delete")
               /\ UNCHANGED <<todo, seenSymbols, seenEdges>>
          ELSE NextFile(t, todo[t] \ {f})
    /\ UNCHANGED <<tables, fetched, clash, pushes>>

\* The DELETEs see what was committed when they began.
Delete(t) ==
    /\ at[t] = "delete"
    /\ LET p == file[t][1]
       IN  /\ seenSymbols' = [seenSymbols EXCEPT ![t] = RowsOf(p, symbols)]
           /\ seenEdges' = [seenEdges EXCEPT ![t] = EdgesFrom(p)]
           /\ clash' = clash \cup {q \in {p} : \E u \in Indexer \ {t} :
                                      at[u] = "insert" /\ file[u][1] = q}
    /\ Proceed(t, "insert")
    /\ UNCHANGED <<tables, todo, file, fetched, pushes>>

\* The INSERTs and the commit.
Commit(t) ==
    /\ at[t] = "insert"
    /\ LET p == file[t][1]
           tree == Tree[file[t][2]][p]
       IN  /\ symbols' = (symbols \ seenSymbols[t]) \cup Symbols(p, tree)
           /\ edges' = (edges \ seenEdges[t]) \cup Edges(p, tree)
           /\ fetched' = [fetched EXCEPT ![p] = file[t][2]]
    /\ IF Semantic
       THEN Proceed(t, "embed") /\ UNCHANGED <<todo, file, seenSymbols, seenEdges>>
       ELSE NextFile(t, todo[t] \ {file[t]})
    /\ UNCHANGED <<embedded, clash, pushes>>

\* reindex_repo_embeddings: what is new is embedded; nothing takes away what is gone.
Embed(t) ==
    /\ at[t] = "embed"
    /\ embedded' = embedded \cup Symbols(file[t][1], Tree[file[t][2]][file[t][1]])
    /\ NextFile(t, todo[t] \ {file[t]})
    /\ UNCHANGED <<symbols, edges, fetched, clash, pushes>>

\* A call or a statement fails: a transaction that is not committed leaves nothing.
IndexFails(t) ==
    /\ at[t] \in {"fetch", "delete", "insert", "embed"}
    /\ IF at[t] = "fetch"
       THEN \E f \in todo[t] : NextFile(t, todo[t] \ {f})
       ELSE NextFile(t, todo[t] \ {file[t]})
    /\ UNCHANGED <<tables, fetched, clash, pushes>>

\* The process dies.
IndexerDies(t) ==
    /\ at[t] # "idle"
    /\ NextFile(t, {})
    /\ UNCHANGED <<tables, fetched, clash, pushes>>

IndexStep(t) == Fetch(t) \/ Delete(t) \/ Commit(t) \/ Embed(t)

IndexNext ==
    \E t \in Indexer :
        \/ \E v \in Version : StartPush(t, v)
        \/ IndexStep(t) \/ IndexFails(t) \/ IndexerDies(t)

IndexSpec == IndexInit /\ [][IndexNext]_indexVars

-----------------------------------------------------------------------------
\* Properties.

Indexed(p) == Tree[fetched[p]][p]

\* The names that a file gives to what makes edges, in any version; its path is one.
Names(p) ==
    {<<p>>} \cup {r.name : r \in UNION {Symbols(p, Tree[v][p]) :
                                           v \in {w \in Version : Tree[w][p] # Nothing}}}

Shared(name) == \E p, q \in Path : p # q /\ name \in Names(p) \cap Names(q)

\* What is not in doubt: the files that are indexed, their symbols, and the edges.
Present == {p \in Path : fetched[p] # Nothing}
SymbolsExact == symbols = UNION {Symbols(p, Indexed(p)) : p \in Present}
EdgesThere == \A p \in Present : \A e \in Edges(p, Indexed(p)) : Shared(e[1]) \/ e \in edges

\* index/store.rs 30-56 ("Edges first"): a file's symbols are those of the version it was
\* indexed at last, no edge is left of a version that is gone, and none is missing unless
\* another file uses the name it goes by.  A file two pushes wrote at once is left out.
IndexExact ==
    clash = {} =>
        /\ SymbolsExact
        /\ edges \subseteq UNION {Edges(p, Indexed(p)) : p \in Present}
        /\ EdgesThere

\* index/store.rs 30 : "re-parse one changed file, replacing only its rows."
OthersKept ==
    \A p \in Path : fetched[p] # Nothing => Edges(p, Indexed(p)) \subseteq edges

\* index/semantic.rs 46 : "so embeddings never drift out of lockstep with the symbol graph."
EmbeddingsInStep ==
    (\A t \in Indexer : at[t] = "idle") => embedded \subseteq symbols

-----------------------------------------------------------------------------
\* The inductive invariant, see IntakeProofs.

Trees == {f \in Path \X Version : Tree[f[2]][f[1]] # Nothing}

IndexTypeOK ==
    /\ at \in [Indexer -> {"idle", "fetch", "delete", "insert", "embed"}]
    /\ todo \in [Indexer -> SUBSET (Path \X Version)]
    /\ file \in [Indexer -> Trees \cup {Nothing}]
    /\ DOMAIN seenSymbols = Indexer /\ DOMAIN seenEdges = Indexer
    /\ fetched \in [Path -> Version \cup {Nothing}]
    /\ \A p \in Present : Indexed(p) # Nothing

\* A file is under way from its text to its embeddings.
UnderWay == \A t \in Indexer : at[t] \in {"delete", "insert", "embed"} => file[t] \in Trees

\* The task has the DELETEs of the file behind it, and its INSERTs ahead.
Rewrites(t, p) == at[t] = "insert" /\ file[t][1] = p

OneRewrites == \A p \in Path, t, u \in Indexer : Rewrites(t, p) /\ Rewrites(u, p) => t = u

\* It has seen all rows of the file and, of the edges, only what goes by its names.
SymbolsSeen ==
    \A p \in Path, t \in Indexer : Rewrites(t, p) => seenSymbols[t] = RowsOf(p, symbols)
EdgesSeen ==
    \A p \in Path, t \in Indexer : Rewrites(t, p) =>
        \A e \in seenEdges[t] : e[1] \in Names(p)

\* Every edge has a file that accounts for it, and takes it along when it is rewritten.
EdgesOwned ==
    \A e \in edges : \E p \in Present :
        /\ e \in Edges(p, Indexed(p))
        /\ \A t \in Indexer : Rewrites(t, p) => e \in seenEdges[t]

IndexInv ==
    /\ IndexTypeOK /\ UnderWay
    /\ clash = {} => /\ OneRewrites /\ SymbolsSeen /\ EdgesSeen
                     /\ SymbolsExact /\ EdgesOwned /\ EdgesThere
=============================================================================
