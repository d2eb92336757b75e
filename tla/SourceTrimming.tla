--------------------------- MODULE SourceTrimming ---------------------------
(***************************************************************************)
(* The sources that pkg/deployments/src/verifier.ts submits for the        *)
(* verification of a contract: those of the compiler's input that the      *)
(* source of the contract imports, directly or not, found by the name of   *)
(* the file alone, and in the order of the input. A source is [dir, file]. *)
(***************************************************************************)
EXTENDS Sequences, SequencesExt, FiniteSets, Naturals

CONSTANTS
    Inputs,     \* sequences of sources: inputs of the compiler
    MaxImports, \* bound: imports of one source
    Absent      \* a model value: find() has found none

VARIABLES
    sources,    \* of the compiler's input, in its order
    imports     \* imports[s]: the sources that s imports, in the order of its text

trimVars == <<sources, imports>>

ASSUME TrimAssumption == MaxImports \in Nat /\ \A input \in Inputs : input \in Seq(Range(input))

\* Mutant: the last source of the name.
LastOfItsName(file) ==
    LET places == {i \in DOMAIN sources : sources[i].file = file}
    IN  IF places = {} THEN Absent ELSE sources[CHOOSE i \in places : \A j \in places : j <= i]

\* getContractSourceName: the first source whose path ends in the name.
getContractSourceName(file) ==
    LET places == {i \in DOMAIN sources : sources[i].file = file}
    IN  IF places = {} THEN Absent ELSE sources[CHOOSE i \in places : \A j \in places : i <= j]

\* Only the file name is taken of an import's path. A path without a slash, or a name with
\* anything but letters, digits and underscores, ends the verification: no source here has one.
getAbsoluteSourcePath(s) == getContractSourceName(s.file)

\* The imports of a source, or the last of them.
ImportLists == UNION {[1..n -> Range(sources)] : n \in 0..MaxImports}

\* What has been found so far, and the imports still to be looked at.
Searches == [found : SUBSET Range(sources), rest : ImportLists]
Search(found, rest) == [found |-> found, rest |-> rest]

\* Mutant: what the imports of an import have added is forgotten.
DirectImportsOnly(s, previous) ==
    LET visit[at \in Searches] ==
            IF at.rest = <<>> THEN at.found
            ELSE visit[Search(at.found \cup {getAbsoluteSourcePath(Head(at.rest))}, Tail(at.rest))]
    IN  visit[Search(previous, imports[s])]

\* The sources found from s, with those found before it: a new one is looked into at
\* once, with all that has been found so far.
getContractImportedSourceNames(s, previous) ==
    LET visit[at \in Searches] ==
            IF at.rest = <<>> THEN at.found
            ELSE LET next  == getAbsoluteSourcePath(Head(at.rest))
                     found == IF next \in at.found THEN at.found
                              ELSE visit[Search(at.found \cup {next}, imports[next])]
                 IN  visit[Search(found, Tail(at.rest))]
    IN  visit[Search(previous, imports[s])]

\* The sources in the order of the input.
Ordered(kept) == SelectSeq(sources, LAMBDA x : x \in kept)

trimmedBuildInfoInput(file) ==
    LET s == getContractSourceName(file)
    IN  Ordered(getContractImportedSourceNames(s, {s}))

TrimInit ==
    /\ sources \in Inputs
    /\ imports \in [Range(sources) -> ImportLists]
    /\ \A s \in Range(sources) : s \notin Range(imports[s])

\* Trimming changes neither.
TrimSpec == TrimInit /\ [][FALSE]_trimVars

------------------------------------------------------------------------------

\* What the compiler resolves: the smallest set with s that its imports stay in.
Needed(s) ==
    {x \in Range(sources) :
        \A S \in SUBSET Range(sources) :
            (s \in S /\ \A y \in S : Range(imports[y]) \subseteq S) => x \in S}

\* Of the sources with one file name, the first in the input stands for all.
FirstOfItsName(x) ==
    \E i \in DOMAIN sources : sources[i] = x /\ \A j \in 1..(i - 1) : sources[j].file # x.file

\* What imports lead to when each is taken for the first source of its name.
Followed(s) ==
    LET firsts      == {x \in Range(sources) : FirstOfItsName(x)}
        Named(name) == {x \in firsts : x.file = name}
        steady      == {S \in SUBSET firsts :
                           /\ Named(s.file) \subseteq S
                           /\ \A y \in S : \A i \in Range(imports[y]) : Named(i.file) \subseteq S}
    IN  {x \in firsts : \A S \in steady : x \in S}

\* Whatever namesakes the input has, what is submitted is what imports lead to by file
\* name, in the order of the input, through shared and circular imports. It is what the
\* contract was compiled from, no source less (it would not compile) and none more, when
\* each of those sources is the first of its name, later namesakes or not, and only then:
\* a needed source behind a namesake is never submitted.
TrimmedInputIsExact ==
    \A s \in Range(sources) :
        /\ trimmedBuildInfoInput(s.file) = Ordered(Followed(s))
        /\ Followed(s) = Needed(s) <=> \A x \in Needed(s) : FirstOfItsName(x)
==============================================================================
