------------------------------ MODULE Artifacts ------------------------------
(***************************************************************************)
(* The files of a deployment task in pkg/deployments: the build-info that  *)
(* it deploys from (src/task.ts) and the ABI and bytecode files that are   *)
(* extracted from it, checked against it (src/artifact.ts, buildinfo.ts,   *)
(* hardhat.config.ts) and published by the package (index.ts).             *)
(*                                                                         *)
(* A build-info is the sequence of [source, contract, artifact] that the   *)
(* compiler put out, an artifact an [abi, bytecode], an empty abi is <<>>. *)
(***************************************************************************)
EXTENDS Naturals, Sequences, Functions

CONSTANTS
    TaskNames,      \* the <<task, name>> of build-info files, in the order of the directories
    BuildsOf,       \* BuildsOf[x]: the build-infos that people may put in that file
    Missing         \* a model value: there is no such file

VARIABLES
    build,      \* build[x]: the build-info file
    abi,        \* abi[x], bytecode[x]: the files extracted from it
    bytecode,
    extracting, \* the extract-artifacts run in progress: the files it has left
    half,       \* whether it has written the abi of the first of them
    fresh,      \* history: the files extracted to the end since their build-info was put there
    outcome     \* of the last command on the files as they are now

fileVars == <<build, abi, bytecode, extracting, half, fresh, outcome>>

BuildFiles == Range(TaskNames)

\* What is compared with what is published exists.
ASSUME ArtifactsAssumption ==
    /\ TaskNames \in Seq(BuildFiles)
    /\ \A x \in BuildFiles : \A b \in BuildsOf[x] :
          /\ b # Missing /\ b \in Seq(Range(b))
          /\ \A i \in DOMAIN b :
                /\ b[i].artifact = [abi |-> b[i].artifact.abi, bytecode |-> b[i].artifact.bytecode]
                /\ Missing \notin {b[i].source, b[i].artifact.abi, b[i].artifact.bytecode}

------------------------------------------------------------------------------

\* findContractSourceName: the one source with a contract of the name of the file, or none.
contractMatches(b, name) == {i \in DOMAIN b : b[i].contract = name}
findContractSourceName(b, name) ==
    IF \E i \in contractMatches(b, name) : contractMatches(b, name) = {i}
    THEN b[CHOOSE i \in contractMatches(b, name) : TRUE].source ELSE Missing

Extractable(x) == findContractSourceName(build[x], x[2]) # Missing

extractContractArtifact(x) ==
    (CHOOSE k \in Range(build[x]) :
        k.contract = x[2] /\ k.source = findContractSourceName(build[x], x[2])).artifact

readContractABIAndBytecode(x) ==
    [abi      |-> IF abi[x] = Missing THEN <<>> ELSE abi[x],
     bytecode |-> IF bytecode[x] = Missing THEN "" ELSE bytecode[x]]

checkContract(x) == readContractABIAndBytecode(x) = extractContractArtifact(x)

\* task.artifact: what a task deploys, from the first source that has the contract.
artifact(x) ==
    LET i == CHOOSE i \in DOMAIN build[x] :
                /\ build[x][i].contract = x[2]
                /\ \A j \in 1..(i - 1) : build[x][j].contract # x[2]
    IN  build[x][i].artifact

------------------------------------------------------------------------------

ArtifactInit ==
    /\ build \in [BuildFiles -> {Missing}]
    /\ abi = [x \in BuildFiles |-> Missing] /\ bytecode = [x \in BuildFiles |-> Missing]
    /\ extracting = {} /\ half = FALSE /\ fresh = {} /\ outcome = "none"

PresentFiles == {x \in BuildFiles : build[x] # Missing}

\* Someone replaces a build-info file, as after a change of the sources of a task.
PutBuildInfo(x, b) ==
    /\ extracting = {} /\ build[x] # b
    /\ build' = [build EXCEPT ![x] = b]
    /\ fresh' = fresh \ {x} /\ outcome' = "none"
    /\ UNCHANGED <<abi, bytecode, extracting, half>>

\* extract-artifacts, of one task or of all.
extractArtifacts(files) ==
    /\ extracting = {} /\ files # {}
    /\ extracting' = files /\ outcome' = "none"
    /\ UNCHANGED <<build, abi, bytecode, half, fresh>>

\* Directories are read in order.
CurrentFile ==
    TaskNames[CHOOSE i \in DOMAIN TaskNames :
                /\ TaskNames[i] \in extracting
                /\ \A j \in 1..(i - 1) : TaskNames[j] \notin extracting]

\* Mutant: an ABI file that exists is kept.
WriteNewABI(x) ==
    abi' = IF abi[x] = Missing /\ extractContractArtifact(x).abi # <<>>
           THEN [abi EXCEPT ![x] = extractContractArtifact(x).abi] ELSE abi

\* The ABI of a contract that has none is not written, nor removed.
WriteABI(x) ==
    abi' = IF extractContractArtifact(x).abi # <<>>
           THEN [abi EXCEPT ![x] = extractContractArtifact(x).abi] ELSE abi

\* writeContractArtifact up to the second write; a file that cannot be extracted ends the run.
ExtractABI ==
    /\ extracting # {} /\ ~half
    /\ IF Extractable(CurrentFile)
       THEN /\ WriteABI(CurrentFile) /\ half' = TRUE
            /\ UNCHANGED <<extracting, outcome>>
       ELSE extracting' = {} /\ outcome' = "thrown" /\ UNCHANGED <<abi, half>>
    /\ UNCHANGED <<build, bytecode, fresh>>

ExtractBytecode ==
    /\ extracting # {} /\ half
    /\ bytecode' = [bytecode EXCEPT
                        ![CurrentFile] = extractContractArtifact(CurrentFile).bytecode]
    /\ extracting' = extracting \ {CurrentFile} /\ half' = FALSE
    /\ fresh' = fresh \cup {CurrentFile}
    /\ UNCHANGED <<build, abi, outcome>>

KillExtraction ==
    /\ extracting # {}
    /\ extracting' = {} /\ half' = FALSE
    /\ UNCHANGED <<build, abi, bytecode, fresh, outcome>>

AllMatch == \A x \in PresentFiles : Extractable(x) /\ checkContract(x)

\* check-artifacts of all tasks; it stops at the first file that does not match.
checkArtifacts ==
    /\ extracting = {}
    /\ outcome' = IF AllMatch THEN "passed" ELSE "failed"
    /\ UNCHANGED <<build, abi, bytecode, extracting, half, fresh>>

ArtifactNext ==
    \/ \E x \in BuildFiles : \E b \in BuildsOf[x] : PutBuildInfo(x, b)
    \/ extractArtifacts(PresentFiles)
    \/ \E x \in PresentFiles : extractArtifacts({y \in PresentFiles : y[1] = x[1]})
    \/ ExtractABI \/ ExtractBytecode \/ KillExtraction \/ checkArtifacts

ArtifactSpec == ArtifactInit /\ [][ArtifactNext]_fileVars

------------------------------------------------------------------------------
(* Properties.                                                             *)

\* What a passed check vouches for is what the task deploys (which takes the first
\* contract of the name, whether or not it is the only one): whoever loads the ABI and
\* the creation code of the package gets those of the contract on the chain.
PublishedIsDeployed ==
    outcome = "passed" =>
        \A x \in PresentFiles : readContractABIAndBytecode(x) = artifact(x)

\* A file extracted to the end passes the check until its build-info is replaced, whatever
\* interrupted or stale extractions left behind before; but not the contract that has lost
\* its whole ABI, whose file nothing removes.
ExtractionRepairs ==
    \A x \in fresh : /\ Extractable(x)
                     /\ \/ checkContract(x)
                        \/ extractContractArtifact(x).abi = <<>> /\ abi[x] # Missing

\* The published files are those of the deployed contracts, and extracting repairs them.
ArtifactsAgree == PublishedIsDeployed /\ ExtractionRepairs
==============================================================================
