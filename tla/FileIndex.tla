------------------------------- MODULE FileIndex -------------------------------
(***************************************************************************)
(* What the indexer makes of the files of a snapshot: the modules, the     *)
(* symbols they declare, the edges between them, and the searchable text.  *)
(* A file is hashed when the snapshot is taken and read again here: only a *)
(* file that still has the hashed content is indexed.  A content is a      *)
(* model value whose parse is given by Contents, a specifier is a model    *)
(* value whose candidates are given by Candidates.                         *)
(***************************************************************************)
EXTENDS SequencesExt

CONSTANTS
    Contents,        \* [content -> what parsing it finds]
    SourceKinds,     \* [path -> "source", "test", "rule", "config", "package", "doc"]
    Candidates,      \* [specifier -> the paths a relative import of it may mean, in order]
    None             \* no path, no symbol, no row

SymbolKinds == {"source", "test", "config", "package", "rule"}

SourceLike(files) == {path \in DOMAIN files : SourceKinds[path] \in SymbolKinds}

(***************************************************************************)
(* Reading.  disk and files are functions from paths to contents.          *)
(***************************************************************************)
\* Mutant: whatever is on disk is indexed under the snapshot's hash.
ReadableTextUnchecked(disk, files, path) ==
    /\ path \in DOMAIN disk
    /\ Contents[disk[path]].form = "text"

\* Symbolic links, large files and files with another hash are skipped.
ReadableText(disk, files, path) ==
    /\ path \in DOMAIN disk
    /\ Contents[disk[path]].form = "text"
    /\ disk[path] = files[path]

TextsOf(disk, files, paths) ==
    [path \in {p \in paths : ReadableText(disk, files, p)} |-> disk[path]]

(***************************************************************************)
(* Symbols                                                                 *)
(***************************************************************************)
Module(path) == [path |-> path, name |-> path]

Symbol(path, name) == [path |-> path, name |-> name]

SymbolsOf(texts, path) == {Symbol(path, name) : name \in Contents[texts[path]].declares}

FileNodes(texts) ==
    UNION {{Module(path)} \cup SymbolsOf(texts, path) : path \in DOMAIN texts}

(***************************************************************************)
(* Imports: the relative candidates, then what the compiler configuration  *)
(* says, then the exports of the packages of the workspace.  The last two  *)
(* need the text of the file that says so; the file that is meant only has *)
(* to be in the snapshot.                                                  *)
(***************************************************************************)
TargetsSaidBy(specifier, texts, kind) ==
    {Contents[texts[path]].targets[specifier] :
        path \in {p \in DOMAIN texts :
                    /\ SourceKinds[p] = kind
                    /\ specifier \in DOMAIN Contents[texts[p]].targets}}

\* The configuration files of the compiler, and the manifests of the packages.
CompilerTargets(specifier, texts) == TargetsSaidBy(specifier, texts, "config")
PackageTargets(specifier, texts) == TargetsSaidBy(specifier, texts, "package")

ImportCandidates(specifier, texts) ==
    Candidates[specifier] \o SetToSeq(CompilerTargets(specifier, texts))
        \o SetToSeq(PackageTargets(specifier, texts))

ResolveImport(specifier, files, texts) ==
    LET found == SelectSeq(ImportCandidates(specifier, texts),
                           LAMBDA path : path \in SourceLike(files))
    IN IF found = <<>> THEN None ELSE Head(found)

(***************************************************************************)
(* Edges                                                                   *)
(***************************************************************************)
Edge(type, from, to, ref) == [type |-> type, from |-> from, to |-> to, ref |-> ref]

ContainsEdges(texts, path) ==
    {Edge("contains", Module(path), symbol, None) : symbol \in SymbolsOf(texts, path)}

ExportEdges(texts, path) ==
    {Edge("exports", Module(path), Symbol(path, name), None) :
        name \in Contents[texts[path]].exports}

EdgeToFile(type, path, specifier, files, texts) ==
    LET target == ResolveImport(specifier, files, texts) IN
    IF target = None THEN Edge(type, Module(path), None, specifier)
    ELSE Edge(type, Module(path), Module(target), target)

ImportEdges(files, texts, path) ==
    {EdgeToFile("imports", path, import.specifier, files, texts) :
        import \in Contents[texts[path]].imports}

ReExportEdges(files, texts, path) ==
    {EdgeToFile("exports", path, specifier, files, texts) :
        specifier \in Contents[texts[path]].reExports}

\* A call means the symbol of its own file, else the imported one, else the
\* only symbol of that name.
ImportedSymbols(files, texts, path, name) ==
    {Symbol(ResolveImport(import.specifier, files, texts), name) :
        import \in {i \in Contents[texts[path]].imports : name \in i.bindings}}
    \cap FileNodes(texts)

SymbolsNamed(texts, name) == {node \in FileNodes(texts) : node.name = name}

CallTargets(files, texts, path, name) ==
    IF Symbol(path, name) \in FileNodes(texts) THEN {Symbol(path, name)}
    ELSE IF ImportedSymbols(files, texts, path, name) # {}
         THEN ImportedSymbols(files, texts, path, name)
         ELSE SymbolsNamed(texts, name)

\* A call comes from the symbol it stands in, or from the module.
CallEdge(files, texts, path, call) ==
    LET targets == CallTargets(files, texts, path, call.name) IN
    Edge("calls",
         IF call.within = None THEN Module(path) ELSE Symbol(path, call.within),
         IF Cardinality(targets) = 1 THEN CHOOSE t \in targets : TRUE ELSE None,
         call.name)

CallEdges(files, texts, path) ==
    {CallEdge(files, texts, path, call) : call \in Contents[texts[path]].calls}

FileEdges(files, texts) ==
    UNION {ContainsEdges(texts, path) \cup ExportEdges(texts, path)
             \cup ImportEdges(files, texts, path) \cup ReExportEdges(files, texts, path)
             \cup CallEdges(files, texts, path) : path \in DOMAIN texts}

(***************************************************************************)
(* Text search                                                             *)
(***************************************************************************)
\* Text that looks like a secret never gets into the search table.
LexicalEntries(texts) ==
    {[path |-> path, content |-> texts[path]] :
        path \in {p \in DOMAIN texts : ~Contents[texts[p]].secret}}
=============================================================================
