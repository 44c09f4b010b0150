------------------------------ MODULE JoinImpact -------------------------------
(***************************************************************************)
(* Which members a push concerns: the symbols that differ between the two     *)
(* versions of the pushed files, joined with what the members' tracked files  *)
(* refer to (src/src/ast/joinImpact.ts; the worker of AstAnalyzer calls it).  *)
(*                                                                         *)
(* A name is the sequence of its segments (A.bar is <<"A", "bar">>), a path   *)
(* the segments of what stands between a leading ./ and the extension, and a  *)
(* kind its place in Kinds.  An index gives each name its line.  Sorting and  *)
(* repeated sites are left out.                                             *)
(***************************************************************************)
EXTENDS Integers, Sequences

Kinds == <<"function", "class", "variable", "import", "export">>
Kind == 1..Len(Kinds)

LineOf(index, name) == IF name \in DOMAIN index THEN index[name] ELSE 0

\* diffArray(): added, removed, or on another line
DiffArray(pre, post) ==
    {name \in DOMAIN pre \cup DOMAIN post : LineOf(pre, name) # LineOf(post, name)}

\* versions[f] are the two indexes of file f, one part for each kind
ChangesIn(f, k, version) ==
    {[name |-> name, kind |-> k, changedIn |-> f] :
        name \in DiffArray(version.pre[k], version.post[k])}
Changes(versions) == UNION {ChangesIn(f, k, versions[f]) : f \in DOMAIN versions, k \in Kind}

\* rootName and extractBaseName()
RootName(name) == <<name[1]>>
BaseName(name) == <<name[Len(name)]>>

\* normalize(): a trailing /index is dropped
Normalize(path) ==
    IF Len(path) > 1 /\ path[Len(path)] = "index" THEN SubSeq(path, 1, Len(path) - 1) ELSE path

PathMatches(from, changedIn) == Normalize(from) = Normalize(changedIn)

\* The imports that make the references of a file count (T-05-05)
Bridges(refs, change) ==
    {imp \in refs.imports : /\ imp.name \in {change.name, RootName(change.name)}
                            /\ PathMatches(imp.from, change.changedIn)}

Refers(site, change) == site.name = change.name \/ BaseName(site.name) = change.name

\* The line of a bridge, and of every call and read of the changed name
Lines(refs, change) ==
    LET bridges == Bridges(refs, change)
    IN  IF bridges = {} THEN {}
        ELSE {(CHOOSE imp \in bridges : TRUE).line}
             \cup {site.line : site \in {s \in refs.calls \cup refs.reads : Refers(s, change)}}

CallersIn(m, f, refs, change) ==
    {[memberId |-> m, file |-> f, line |-> line] : line \in Lines(refs, change)}

\* references[m][f] is the reference index of file f as member m tracks it
Callers(references, change) ==
    UNION {UNION {CallersIn(m, f, references[m][f], change) : f \in DOMAIN references[m]} :
           m \in DOMAIN references}

AffectedSymbol(references, change) ==
    [name |-> change.name, kind |-> change.kind, changedIn |-> change.changedIn,
     callers |-> Callers(references, change)]

AffectedSymbols(versions, references) ==
    {AffectedSymbol(references, c) :
        c \in {d \in Changes(versions) : Callers(references, d) # {}}}

Concerns(sym, m) == \E c \in sym.callers : c.memberId = m
SameSymbol(s, t) == s.name = t.name /\ s.changedIn = t.changedIn

\* What one member is told: a symbol that changed as two kinds is listed once, as the first
PerMember(versions, references, m) ==
    {s \in AffectedSymbols(versions, references) :
        /\ Concerns(s, m)
        /\ \A t \in AffectedSymbols(versions, references) :
              Concerns(t, m) /\ SameSymbol(s, t) => s.kind <= t.kind}

-----------------------------------------------------------------------------
(* Properties *)

\* "No import = no attribution" (joinImpact.ts): whatever the calls and reads of a file are
\* named, they count only where the file imports the changed symbol, or the class it
\* belongs to, from the changed file.
AttributedByImport(versions, references) ==
    \A s \in AffectedSymbols(versions, references) : \A c \in s.callers :
       /\ \E d \in Changes(versions) : SameSymbol(s, d)
       /\ \E imp \in references[c.memberId][c.file].imports :
             /\ imp.name \in {s.name, RootName(s.name)}
             /\ PathMatches(imp.from, s.changedIn)

\* What an import means to the language, for one that does not climb with "..": a file, or
\* the index of a folder, from the importing file's own folder
Folder(file) == SubSeq(file, 1, Len(file) - 1)
Imports(file, imp, changedIn) ==
    LET path == Folder(file) \o imp.from IN changedIn \in {path, Append(path, "index")}

\* The importers that joinImpact() finds ("missed attribution is the dangerous direction"):
\* a member is told of a changed symbol for every file of its own at the top of the branch
\* that imports the symbol, or its class, from the changed file, if the import does not name
\* an index.  Of files in folders nothing is promised: the path is compared as written.
ImportersAreTold(versions, references) ==
    \A d \in Changes(versions) : \A m \in DOMAIN references : \A f \in DOMAIN references[m] :
       /\ Folder(f) = <<>>
       /\ \E imp \in references[m][f].imports :
             /\ imp.name \in {d.name, RootName(d.name)}
             /\ imp.from # <<>> /\ imp.from[Len(imp.from)] # "index"
             /\ Imports(f, imp, d.changedIn)
       => \E s \in PerMember(versions, references, m) :
             SameSymbol(s, d) /\ \E c \in s.callers : c.memberId = m /\ c.file = f

\* Listing a symbol once loses no site: what a member is told of a symbol has the callers
\* of every kind under which it changed, and the member is told of each symbol once.
OnceWithEveryCaller(versions, references) ==
    \A m \in DOMAIN references :
       /\ \A s \in AffectedSymbols(versions, references) : Concerns(s, m) =>
             \E t \in PerMember(versions, references, m) :
                SameSymbol(s, t) /\ t.callers = s.callers
       /\ \A s, t \in PerMember(versions, references, m) : SameSymbol(s, t) => s = t
===============================================================================
