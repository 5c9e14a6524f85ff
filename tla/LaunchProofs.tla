---------------------------- MODULE LaunchProofs ----------------------------
(***************************************************************************)
(* Theorems about Launch, for any number of launches, contents, tries,     *)
(* groups, experiments and collections, under whatever faults each of them *)
(* names.                                                                  *)
(***************************************************************************)
EXTENDS Launch, TLAPS

-----------------------------------------------------------------------------
(* Names, and what each way of changing a job does.                        *)

\* The names of the staging parent are kept apart by their first component, and each private one
\* belongs to one launch.
LEMMA NamesApart ==
  ASSUME LaunchConstantsOK
  PROVE  /\ \A c \in Codes : Final(c) \in Names
         /\ \A l \in Launches : Temp(l) \in Names /\ Fallback(l) \in Names /\ Run(l) \in Names
         /\ \A c, d \in Codes : Final(c) = Final(d) => c = d
         /\ \A c \in Codes : \A l \in Launches :
              Final(c) # Temp(l) /\ Final(c) # Fallback(l) /\ Final(c) # Run(l)
         /\ \A l, m \in Launches :
              Temp(l) # Fallback(m) /\ Temp(l) # Run(m) /\ Fallback(l) # Run(m)
         /\ \A l, m \in Launches :
              /\ Temp(l) = Temp(m) => l = m
              /\ Fallback(l) = Fallback(m) => l = m
              /\ Run(l) = Run(m) => l = m
         /\ NoName \notin Names
         /\ \A n \in Names : ContentAddressed(n) =>
              (\E c \in Codes : n = Final(c)) \/ (\E l \in Launches : n = Fallback(l))
         /\ \A n \in Names : (\E c \in Codes : n = Final(c))
                             \/ (\E l \in Launches : n \in {Temp(l), Fallback(l), Run(l)})
<1>1. \A n : n \in Names <=> \/ \E c \in Codes : n = Final(c)
                             \/ \E l \in Launches : n \in Private(l)
  BY DEF Names
<1>2. \A l \in Launches : \A n : n \in Private(l) <=> n \in {Temp(l), Fallback(l), Run(l)}
  BY DEF Private
<1>3. /\ \A c \in Codes : Final(c) \in Names
      /\ \A l \in Launches : Temp(l) \in Names /\ Fallback(l) \in Names /\ Run(l) \in Names
  BY <1>1, <1>2
<1>4. /\ \A c, d \in Codes : Final(c) = Final(d) => c = d
      /\ \A c \in Codes : \A l \in Launches :
              Final(c) # Temp(l) /\ Final(c) # Fallback(l) /\ Final(c) # Run(l)
  BY DEF Final, Temp, Fallback, Run
<1>5. /\ \A l, m \in Launches :
              Temp(l) # Fallback(m) /\ Temp(l) # Run(m) /\ Fallback(l) # Run(m)
      /\ \A l, m \in Launches :
              /\ Temp(l) = Temp(m) => l = m
              /\ Fallback(l) = Fallback(m) => l = m
              /\ Run(l) = Run(m) => l = m
  BY DEF Temp, Fallback, Run
<1>6. NoName \notin Names
  BY <1>1, <1>2 DEF NoName, Final, Temp, Fallback, Run
<1>7. \A n \in Names : ContentAddressed(n) =>
              (\E c \in Codes : n = Final(c)) \/ (\E l \in Launches : n = Fallback(l))
  BY <1>1, <1>2 DEF Final, Temp, Fallback, Run, ContentAddressed
<1>8. \A n \in Names : (\E c \in Codes : n = Final(c))
                             \/ (\E l \in Launches : n \in {Temp(l), Fallback(l), Run(l)})
  BY <1>1, <1>2
<1> QED BY <1>3, <1>4, <1>5, <1>6, <1>7, <1>8

\* Where launches and bounds are, as the leaves below need it.
LEMMA Places ==
  ASSUME LaunchConstantsOK
  PROVE  /\ Ended \subseteq PCs /\ Building \subseteq PCs /\ Staging \subseteq PCs
         /\ {"start", "stagelock", "hash", "fresh", "resume"} \subseteq PCs
         /\ 0 \in 0..MaxTries /\ 0 \in 0..Groups /\ MaxTries \in Nat /\ Groups \in Nat
         /\ NoXid \in Xids \cup {NoXid} /\ NoXid \notin Xids
BY DEF LaunchConstantsOK, PCs, Ended, Building, Staging, Xids, NoXid

\* A step changes no other launch.
Others(l) == \A m \in Launches : m # l => job'[m] = job[m]

\* A step leaves what a launch staged and launched as it is.
Keeps(l) == /\ job'[l].mode = job[l].mode /\ job'[l].source = job[l].source
            /\ job'[l].sha = job[l].sha /\ job'[l].dir = job[l].dir
            /\ job'[l].resumes = job[l].resumes /\ job'[l].xid = job[l].xid
            /\ job'[l].built = job[l].built /\ job'[l].said = job[l].said

\* A step takes launch l to pc, and changes no other launch.
Moves(l, pc) == /\ job' \in [Launches -> Job] /\ Others(l) /\ job'[l].pc = pc

\* A job is written, and nothing else is.
LEMMA Updated ==
  ASSUME NEW l \in Launches, NEW r \in Job, job \in [Launches -> Job],
         job' = [job EXCEPT ![l] = r]
  PROVE  job' \in [Launches -> Job] /\ Others(l) /\ job'[l] = r
BY DEF Others

\* Goto changes where a launch is, and nothing else.
LEMMA GotoIs ==
  ASSUME NEW l \in Launches, NEW pc \in PCs, job \in [Launches -> Job], Goto(l, pc)
  PROVE  Moves(l, pc) /\ Keeps(l)
<1> DEFINE r == [job[l] EXCEPT !.pc = pc]
<1>1. job[l] \in Job
  OBVIOUS
<1>2. job' = [job EXCEPT ![l] = r]
  BY DEF Goto
<1>3. r \in Job /\ r.pc = pc
  BY <1>1 DEF Job
<1>4. /\ r.mode = job[l].mode /\ r.source = job[l].source /\ r.sha = job[l].sha
      /\ r.dir = job[l].dir /\ r.resumes = job[l].resumes /\ r.xid = job[l].xid
      /\ r.built = job[l].built /\ r.said = job[l].said
  BY <1>1 DEF Job
<1> HIDE DEF r
<1> QED BY <1>2, <1>3, <1>4, Updated DEF Moves, Keeps

\* A return from `tpu queue` forgets everything.
LEMMA ReturnIs ==
  ASSUME LaunchConstantsOK, NEW l \in Launches, NEW pc \in Ended, job \in [Launches -> Job],
         Return(l, pc)
  PROVE  /\ Moves(l, pc)
         /\ job'[l].dir = NoName /\ job'[l].resumes = NoXid /\ job'[l].xid = NoXid
         /\ job'[l].said = FALSE /\ job'[l].mode = "none"
<1> DEFINE r == Shell(pc, "none", NoCode, 0)
<1>1. pc \in PCs /\ 0 \in 0..MaxTries /\ 0 \in 0..Groups
  BY Places
<1>2. r \in Job
  BY <1>1, Zenon DEF Shell, Job, Contents
<1>3. r.pc = pc /\ r.dir = NoName /\ r.resumes = NoXid /\ r.xid = NoXid /\ r.said = FALSE
      /\ r.mode = "none"
  BY DEF Shell
<1>4. job' = [job EXCEPT ![l] = r]
  BY DEF Return
<1> HIDE DEF r
<1> QED BY <1>2, <1>3, <1>4, Updated DEF Moves

\* The end of staging fixes the directory and the hash the launch builds from.
LEMMA StagedIs ==
  ASSUME LaunchConstantsOK, NEW l \in Launches, NEW n \in Names, NEW c \in Codes \cup {NoCode},
         job \in [Launches -> Job], Staged(l, n, c)
  PROVE  /\ Moves(l, "buildlock")
         /\ job'[l].dir = n /\ job'[l].sha = c /\ job'[l].mode = "none"
         /\ job'[l].resumes = job[l].resumes /\ job'[l].xid = job[l].xid
         /\ job'[l].said = job[l].said
<1> DEFINE k == job[l].locks \ {"stage"}
           r == [job[l] EXCEPT !.pc = "buildlock", !.dir = n, !.sha = c, !.tries = 0,
                               !.mode = "none", !.source = NoCode, !.locks = k]
<1>1. "buildlock" \in PCs /\ 0 \in 0..MaxTries
  BY Places DEF Building
<1>2. k \in SUBSET {"stage", "build"} /\ job[l] \in Job
  BY DEF Job
<1>3. job' = [job EXCEPT ![l] = r]
  BY DEF Staged
<1> HIDE DEF k
<1>4. r \in Job
  BY <1>1, <1>2, Zenon DEF Job
<1>5. /\ r.pc = "buildlock" /\ r.dir = n /\ r.sha = c /\ r.mode = "none"
      /\ r.resumes = job[l].resumes /\ r.xid = job[l].xid /\ r.said = job[l].said
  BY <1>2 DEF Job
<1> HIDE DEF r
<1> QED BY <1>3, <1>4, <1>5, Updated DEF Moves

\* A lock is taken.
LEMMA TakesLock ==
  ASSUME LaunchConstantsOK, NEW l \in Launches, NEW next \in PCs,
         NEW lock \in {"stage", "build"}, job \in [Launches -> Job],
         job' = [job EXCEPT ![l].pc = next, ![l].locks = @ \cup {lock}]
  PROVE  /\ Moves(l, next)
         /\ Keeps(l)
<1> DEFINE r == [job[l] EXCEPT !.pc = next, !.locks = job[l].locks \cup {lock}]
<1>1. job[l] \in Job
  OBVIOUS
<1>2. job' = [job EXCEPT ![l] = r]
  BY <1>1 DEF Job
<1>3. job[l].locks \cup {lock} \in SUBSET {"stage", "build"}
  BY <1>1 DEF Job
<1>4. r \in Job
  BY <1>1, <1>3, Zenon DEF Job
<1>5. /\ r.pc = next
      /\ r.mode = job[l].mode
      /\ r.source = job[l].source
      /\ r.sha = job[l].sha
      /\ r.dir = job[l].dir
      /\ r.resumes = job[l].resumes
      /\ r.xid = job[l].xid
      /\ r.built = job[l].built
      /\ r.said = job[l].said
  BY <1>1 DEF Job
<1> HIDE DEF r
<1>6. job' \in [Launches -> Job] /\ Others(l) /\ job'[l] = r
  BY <1>2, <1>4, Updated
<1> QED BY <1>4, <1>5, <1>6 DEF Moves, Keeps

\* The tries are counted.
LEMMA TriesAre ==
  ASSUME LaunchConstantsOK, NEW l \in Launches, NEW pc \in PCs, NEW t \in 0..MaxTries,
         job \in [Launches -> Job],
         job' = [job EXCEPT ![l].tries = t, ![l].pc = pc]
  PROVE  /\ Moves(l, pc)
         /\ Keeps(l)
<1> DEFINE r == [job[l] EXCEPT !.tries = t, !.pc = pc]
<1>1. job[l] \in Job
  OBVIOUS
<1>2. job' = [job EXCEPT ![l] = r]
  BY <1>1 DEF Job
<1>3. r \in Job
  BY <1>1, Zenon DEF Job
<1>4. /\ r.pc = pc
      /\ r.mode = job[l].mode
      /\ r.source = job[l].source
      /\ r.sha = job[l].sha
      /\ r.dir = job[l].dir
      /\ r.resumes = job[l].resumes
      /\ r.xid = job[l].xid
      /\ r.built = job[l].built
      /\ r.said = job[l].said
  BY <1>1 DEF Job
<1> HIDE DEF r
<1>5. job' \in [Launches -> Job] /\ Others(l) /\ job'[l] = r
  BY <1>2, <1>3, Updated
<1> QED BY <1>3, <1>4, <1>5 DEF Moves, Keeps

\* The flags name an experiment.
LEMMA ResumesIs ==
  ASSUME LaunchConstantsOK, NEW l \in Launches, NEW x \in Xids, job \in [Launches -> Job],
         job' = [job EXCEPT ![l].pc = "stagelock", ![l].resumes = x]
  PROVE  /\ Moves(l, "stagelock")
         /\ job'[l].resumes = x
         /\ job'[l].mode = job[l].mode
         /\ job'[l].source = job[l].source
         /\ job'[l].sha = job[l].sha
         /\ job'[l].dir = job[l].dir
         /\ job'[l].xid = job[l].xid
         /\ job'[l].built = job[l].built
         /\ job'[l].said = job[l].said
<1> DEFINE r == [job[l] EXCEPT !.pc = "stagelock", !.resumes = x]
<1>1. job[l] \in Job
  OBVIOUS
<1>2. job' = [job EXCEPT ![l] = r]
  BY <1>1 DEF Job
<1>3. "stagelock" \in PCs
  BY Places
<1>4. r \in Job
  BY <1>1, <1>3, Zenon DEF Job
<1>5. /\ r.pc = "stagelock"
      /\ r.resumes = x
      /\ r.mode = job[l].mode
      /\ r.source = job[l].source
      /\ r.sha = job[l].sha
      /\ r.dir = job[l].dir
      /\ r.xid = job[l].xid
      /\ r.built = job[l].built
      /\ r.said = job[l].said
  BY <1>1 DEF Job
<1> HIDE DEF r
<1>6. job' \in [Launches -> Job] /\ Others(l) /\ job'[l] = r
  BY <1>2, <1>4, Updated
<1> QED BY <1>4, <1>5, <1>6 DEF Moves, Keeps

\* The tree is hashed.
LEMMA HashIs ==
  ASSUME LaunchConstantsOK, NEW l \in Launches, job \in [Launches -> Job],
         job' = [job EXCEPT ![l].pc = "look", ![l].sha = job[l].source]
  PROVE  /\ Moves(l, "look")
         /\ job'[l].sha = job[l].source
         /\ job'[l].mode = job[l].mode
         /\ job'[l].source = job[l].source
         /\ job'[l].dir = job[l].dir
         /\ job'[l].resumes = job[l].resumes
         /\ job'[l].xid = job[l].xid
         /\ job'[l].built = job[l].built
         /\ job'[l].said = job[l].said
<1> DEFINE r == [job[l] EXCEPT !.pc = "look", !.sha = job[l].source]
<1>1. job[l] \in Job
  OBVIOUS
<1>2. job' = [job EXCEPT ![l] = r]
  BY <1>1 DEF Job
<1>3. "look" \in PCs
  BY Places DEF Building, Staging, Launching, Ended, PCs
<1>4. job[l].source \in Codes \cup {NoCode}
  BY <1>1 DEF Job
<1>5. r \in Job
  BY <1>1, <1>3, <1>4, Zenon DEF Job
<1>6. /\ r.pc = "look"
      /\ r.sha = job[l].source
      /\ r.mode = job[l].mode
      /\ r.source = job[l].source
      /\ r.dir = job[l].dir
      /\ r.resumes = job[l].resumes
      /\ r.xid = job[l].xid
      /\ r.built = job[l].built
      /\ r.said = job[l].said
  BY <1>1 DEF Job
<1> HIDE DEF r
<1>7. job' \in [Launches -> Job] /\ Others(l) /\ job'[l] = r
  BY <1>2, <1>5, Updated
<1> QED BY <1>5, <1>6, <1>7 DEF Moves, Keeps

\* The next group is taken.
LEMMA GroupIs ==
  ASSUME LaunchConstantsOK, NEW l \in Launches, job \in [Launches -> Job],
         job[l].groups # 0,
         job' = [job EXCEPT ![l].pc = "create", ![l].groups = @ - 1, ![l].retried = FALSE]
  PROVE  /\ Moves(l, "create")
         /\ Keeps(l)
<1> DEFINE r == [job[l] EXCEPT !.pc = "create", !.groups = job[l].groups - 1, !.retried = FALSE]
<1>1. job[l] \in Job
  OBVIOUS
<1>2. job' = [job EXCEPT ![l] = r]
  BY <1>1 DEF Job
<1>3. "create" \in PCs
  BY Places DEF Building, Staging, Launching, Ended, PCs
<1>4. Groups \in Nat
  BY Places
<1>5. job[l].groups \in 0..Groups
  BY <1>1 DEF Job
<1>6. job[l].groups - 1 \in 0..Groups
  BY <1>4, <1>5
<1>7. r \in Job
  BY <1>1, <1>3, <1>4, <1>5, <1>6, Zenon DEF Job
<1>8. /\ r.pc = "create"
      /\ r.mode = job[l].mode
      /\ r.source = job[l].source
      /\ r.sha = job[l].sha
      /\ r.dir = job[l].dir
      /\ r.resumes = job[l].resumes
      /\ r.xid = job[l].xid
      /\ r.built = job[l].built
      /\ r.said = job[l].said
  BY <1>1 DEF Job
<1> HIDE DEF r
<1>9. job' \in [Launches -> Job] /\ Others(l) /\ job'[l] = r
  BY <1>2, <1>7, Updated
<1> QED BY <1>7, <1>8, <1>9 DEF Moves, Keeps

\* An experiment is made or found.
LEMMA PreparesIs ==
  ASSUME LaunchConstantsOK, NEW l \in Launches, NEW x \in Xids \cup {NoXid},
         job \in [Launches -> Job],
         job' = [job EXCEPT ![l].pc = "prepare", ![l].xid = x]
  PROVE  /\ Moves(l, "prepare")
         /\ job'[l].xid = x
         /\ job'[l].mode = job[l].mode
         /\ job'[l].source = job[l].source
         /\ job'[l].sha = job[l].sha
         /\ job'[l].dir = job[l].dir
         /\ job'[l].resumes = job[l].resumes
         /\ job'[l].built = job[l].built
         /\ job'[l].said = job[l].said
<1> DEFINE r == [job[l] EXCEPT !.pc = "prepare", !.xid = x]
<1>1. job[l] \in Job
  OBVIOUS
<1>2. job' = [job EXCEPT ![l] = r]
  BY <1>1 DEF Job
<1>3. "prepare" \in PCs
  BY Places DEF Building, Staging, Launching, Ended, PCs
<1>4. r \in Job
  BY <1>1, <1>3, Zenon DEF Job
<1>5. /\ r.pc = "prepare"
      /\ r.xid = x
      /\ r.mode = job[l].mode
      /\ r.source = job[l].source
      /\ r.sha = job[l].sha
      /\ r.dir = job[l].dir
      /\ r.resumes = job[l].resumes
      /\ r.built = job[l].built
      /\ r.said = job[l].said
  BY <1>1 DEF Job
<1> HIDE DEF r
<1>6. job' \in [Launches -> Job] /\ Others(l) /\ job'[l] = r
  BY <1>2, <1>4, Updated
<1> QED BY <1>4, <1>5, <1>6 DEF Moves, Keeps

\* No experiment is made.
LEMMA GivesUpIs ==
  ASSUME LaunchConstantsOK, NEW l \in Launches, job \in [Launches -> Job],
         job' = [job EXCEPT ![l].pc = "extract", ![l].xid = NoXid, ![l].retried = TRUE]
  PROVE  /\ Moves(l, "extract")
         /\ job'[l].xid = NoXid
         /\ job'[l].mode = job[l].mode
         /\ job'[l].source = job[l].source
         /\ job'[l].sha = job[l].sha
         /\ job'[l].dir = job[l].dir
         /\ job'[l].resumes = job[l].resumes
         /\ job'[l].built = job[l].built
         /\ job'[l].said = job[l].said
<1> DEFINE r == [job[l] EXCEPT !.pc = "extract", !.xid = NoXid, !.retried = TRUE]
<1>1. job[l] \in Job
  OBVIOUS
<1>2. job' = [job EXCEPT ![l] = r]
  BY <1>1 DEF Job
<1>3. "extract" \in PCs
  BY Places DEF Building, Staging, Launching, Ended, PCs
<1>4. r \in Job
  BY <1>1, <1>3, Zenon DEF Job
<1>5. /\ r.pc = "extract"
      /\ r.xid = NoXid
      /\ r.mode = job[l].mode
      /\ r.source = job[l].source
      /\ r.sha = job[l].sha
      /\ r.dir = job[l].dir
      /\ r.resumes = job[l].resumes
      /\ r.built = job[l].built
      /\ r.said = job[l].said
  BY <1>1 DEF Job
<1> HIDE DEF r
<1>6. job' \in [Launches -> Job] /\ Others(l) /\ job'[l] = r
  BY <1>2, <1>4, Updated
<1> QED BY <1>4, <1>5, <1>6 DEF Moves, Keeps

\* A package is found or built.
LEMMA PackagedIs ==
  ASSUME LaunchConstantsOK, NEW l \in Launches, NEW c \in Contents,
         job \in [Launches -> Job],
         Packaged(l, c)
  PROVE  /\ Moves(l, "add")
         /\ job'[l].built = c
         /\ job'[l].mode = job[l].mode
         /\ job'[l].source = job[l].source
         /\ job'[l].sha = job[l].sha
         /\ job'[l].dir = job[l].dir
         /\ job'[l].resumes = job[l].resumes
         /\ job'[l].xid = job[l].xid
         /\ job'[l].said = job[l].said
<1> DEFINE r == [job[l] EXCEPT !.pc = "add", !.built = c]
<1>1. job[l] \in Job
  OBVIOUS
<1>2. job' = [job EXCEPT ![l] = r]
  BY <1>1 DEF Job, Packaged
<1>3. "add" \in PCs
  BY Places DEF Building, Staging, Launching, Ended, PCs
<1>4. r \in Job
  BY <1>1, <1>3, Zenon DEF Job
<1>5. /\ r.pc = "add"
      /\ r.built = c
      /\ r.mode = job[l].mode
      /\ r.source = job[l].source
      /\ r.sha = job[l].sha
      /\ r.dir = job[l].dir
      /\ r.resumes = job[l].resumes
      /\ r.xid = job[l].xid
      /\ r.said = job[l].said
  BY <1>1 DEF Job
<1> HIDE DEF r
<1>6. job' \in [Launches -> Job] /\ Others(l) /\ job'[l] = r
  BY <1>2, <1>4, Updated
<1> QED BY <1>4, <1>5, <1>6 DEF Moves, Keeps

\* The line of a launched experiment is printed.
LEMMA PrintsIs ==
  ASSUME LaunchConstantsOK, NEW l \in Launches, job \in [Launches -> Job],
         job' = [job EXCEPT ![l].pc = "extract", ![l].said = TRUE]
  PROVE  /\ Moves(l, "extract")
         /\ job'[l].said = TRUE
         /\ job'[l].mode = job[l].mode
         /\ job'[l].source = job[l].source
         /\ job'[l].sha = job[l].sha
         /\ job'[l].dir = job[l].dir
         /\ job'[l].resumes = job[l].resumes
         /\ job'[l].xid = job[l].xid
         /\ job'[l].built = job[l].built
<1> DEFINE r == [job[l] EXCEPT !.pc = "extract", !.said = TRUE]
<1>1. job[l] \in Job
  OBVIOUS
<1>2. job' = [job EXCEPT ![l] = r]
  BY <1>1 DEF Job
<1>3. "extract" \in PCs
  BY Places DEF Building, Staging, Launching, Ended, PCs
<1>4. r \in Job
  BY <1>1, <1>3, Zenon DEF Job
<1>5. /\ r.pc = "extract"
      /\ r.said = TRUE
      /\ r.mode = job[l].mode
      /\ r.source = job[l].source
      /\ r.sha = job[l].sha
      /\ r.dir = job[l].dir
      /\ r.resumes = job[l].resumes
      /\ r.xid = job[l].xid
      /\ r.built = job[l].built
  BY <1>1 DEF Job
<1> HIDE DEF r
<1>6. job' \in [Launches -> Job] /\ Others(l) /\ job'[l] = r
  BY <1>2, <1>4, Updated
<1> QED BY <1>4, <1>5, <1>6 DEF Moves, Keeps

\* The wrapper is done with an attempt.
LEMMA ExtractsIs ==
  ASSUME LaunchConstantsOK, NEW l \in Launches, NEW pc \in {"group", "create"},
         NEW b \in BOOLEAN, job \in [Launches -> Job],
         job' = [job EXCEPT ![l].pc = pc, ![l].retried = b, ![l].said = FALSE,
                            ![l].xid = NoXid, ![l].built = NoCode]
  PROVE  /\ Moves(l, pc)
         /\ job'[l].said = FALSE
         /\ job'[l].xid = NoXid
         /\ job'[l].built = NoCode
         /\ job'[l].mode = job[l].mode
         /\ job'[l].source = job[l].source
         /\ job'[l].sha = job[l].sha
         /\ job'[l].dir = job[l].dir
         /\ job'[l].resumes = job[l].resumes
<1> DEFINE r == [job[l] EXCEPT !.pc = pc, !.retried = b, !.said = FALSE,
                               !.xid = NoXid, !.built = NoCode]
<1>1. job[l] \in Job
  OBVIOUS
<1>2. job' = [job EXCEPT ![l] = r]
  BY <1>1 DEF Job
<1>3. pc \in PCs
  BY Places DEF Building, Staging, Launching, Ended, PCs
<1>4. r \in Job
  BY <1>1, <1>3, Zenon DEF Job, Contents
<1>5. /\ r.pc = pc
      /\ r.said = FALSE
      /\ r.xid = NoXid
      /\ r.built = NoCode
      /\ r.mode = job[l].mode
      /\ r.source = job[l].source
      /\ r.sha = job[l].sha
      /\ r.dir = job[l].dir
      /\ r.resumes = job[l].resumes
  BY <1>1 DEF Job
<1> HIDE DEF r
<1>6. job' \in [Launches -> Job] /\ Others(l) /\ job'[l] = r
  BY <1>2, <1>4, Updated
<1> QED BY <1>4, <1>5, <1>6 DEF Moves, Keeps

\* A source tree is edited.
LEMMA EditIs ==
  ASSUME LaunchConstantsOK, NEW l \in Launches, NEW c \in Codes, job \in [Launches -> Job],
         job' = [job EXCEPT ![l].source = c]
  PROVE  /\ Moves(l, job[l].pc)
         /\ job'[l].source = c
         /\ job'[l].mode = job[l].mode
         /\ job'[l].sha = job[l].sha
         /\ job'[l].dir = job[l].dir
         /\ job'[l].resumes = job[l].resumes
         /\ job'[l].xid = job[l].xid
         /\ job'[l].built = job[l].built
         /\ job'[l].said = job[l].said
<1> DEFINE r == [job[l] EXCEPT !.source = c]
<1>1. job[l] \in Job
  OBVIOUS
<1>2. job' = [job EXCEPT ![l] = r]
  BY <1>1 DEF Job
<1>3. job[l].pc \in PCs
  BY <1>1 DEF Job
<1>4. r \in Job
  BY <1>1, <1>3, Zenon DEF Job
<1>5. /\ r.source = c /\ r.pc = job[l].pc
      /\ r.mode = job[l].mode
      /\ r.sha = job[l].sha
      /\ r.dir = job[l].dir
      /\ r.resumes = job[l].resumes
      /\ r.xid = job[l].xid
      /\ r.built = job[l].built
      /\ r.said = job[l].said
  BY <1>1 DEF Job
<1> HIDE DEF r
<1>6. job' \in [Launches -> Job] /\ Others(l) /\ job'[l] = r
  BY <1>2, <1>4, Updated
<1> QED BY <1>4, <1>5, <1>6 DEF Moves, Keeps

-----------------------------------------------------------------------------
(* Where launches are, and what that tells.                                *)

\* Launch l has returned.
Returned(l, pc) ==
  /\ Moves(l, pc)
  /\ job'[l].dir = NoName /\ job'[l].resumes = NoXid /\ job'[l].xid = NoXid
  /\ job'[l].said = FALSE /\ job'[l].mode = "none"

\* Launch l has staged content c under name n.
StagedAt(l, n, c) ==
  /\ Moves(l, "buildlock")
  /\ job'[l].dir = n /\ job'[l].sha = c /\ job'[l].mode = "none"
  /\ job'[l].resumes = job[l].resumes /\ job'[l].xid = job[l].xid
  /\ job'[l].said = job[l].said

\* Before a launch builds: it stages, or has yet to.
Preparing == {"start", "stagelock", "hash", "fresh", "resume"} \cup Staging

\* A launcher that has an experiment.
Attached == {"prepare", "package", "add", "record", "print", "wedged"}

\* What the place of a launch tells about it and its experiment: the wrapper reads the line of a
\* launched experiment only where there is a work unit, and whoever resumes an experiment launches
\* that one and no other.
Tells(l) ==
  /\ job[l].pc \in Preparing => job[l].source \in Codes
  /\ job[l].pc \in Staging => job[l].sha \in Codes
  /\ job[l].pc \in Attached => job[l].xid # NoXid
  /\ job[l].xid # NoXid => job[l].pc \in Attached \cup {"extract"}
  /\ job[l].said => job[l].pc = "extract" /\ job[l].xid # NoXid
  /\ job[l].pc \in {"record", "print"} \/ job[l].said => xm[job[l].xid].units # {}
  /\ job[l].resumes # NoXid => xm[job[l].resumes].by # NoLaunch
  /\ job[l].pc \in {"stagelock", "resume"} => (job[l].mode = "resume" <=> job[l].resumes # NoXid)
  /\ job[l].pc = "resume" => job[l].mode = "resume"
  /\ job[l].pc \in {"start", "stagelock"} => job[l].mode # "none"
  /\ job[l].pc \in {"start", "hash", "fresh"} \cup Staging \cup Ended => job[l].resumes = NoXid
  /\ job[l].resumes # NoXid => "resume" \in Modes
  /\ job[l].xid # NoXid /\ job[l].resumes # NoXid => job[l].xid = job[l].resumes
  /\ job[l].pc \in Building => job[l].dir \in Names

\* The same of every launch.
PlaceTells == \A l \in Launches : Tells(l)

\* With a lock or without, a launch goes on.
LEMMA TakeLockIs ==
  ASSUME LaunchConstantsOK, NEW l \in Launches, NEW next \in PCs,
         NEW lock \in {"stage", "build"}, job \in [Launches -> Job], TakeLock(l, lock, next)
  PROVE  Moves(l, next) /\ Keeps(l)
<1>1. CASE TakeLockOrWait(l, lock, next)
  <2>1. job' = [job EXCEPT ![l].pc = next, ![l].locks = @ \cup {lock}]
    BY <1>1 DEF TakeLockOrWait
  <2> QED BY <2>1, TakesLock
<1>2. CASE Goto(l, next)
  BY <1>2, GotoIs
<1> QED BY <1>1, <1>2 DEF TakeLock

\* A launch tries once more, or is refused.
LEMMA AgainIs ==
  ASSUME LaunchConstantsOK, NEW l \in Launches, NEW pc \in PCs, job \in [Launches -> Job],
         Again(l, pc)
  PROVE  (Moves(l, pc) /\ Keeps(l)) \/ Returned(l, "refused")
<1>1. CASE job[l].tries + 1 < MaxTries
  <2> DEFINE t == job[l].tries + 1
  <2>1. job[l].tries \in 0..MaxTries /\ MaxTries \in Nat
    BY Places DEF Job
  <2>2. t \in 0..MaxTries
    BY <2>1, <1>1
  <2>3. job' = [job EXCEPT ![l].tries = t, ![l].pc = pc]
    BY <1>1 DEF Again
  <2> HIDE DEF t
  <2> QED BY <2>2, <2>3, TriesAre
<1>2. CASE ~(job[l].tries + 1 < MaxTries)
  <2>1. Return(l, "refused")
    BY <1>2 DEF Again
  <2>2. "refused" \in Ended
    BY DEF Ended
  <2> QED BY <2>1, <2>2, ReturnIs DEF Returned
<1> QED BY <1>1, <1>2

\* A return is one.
LEMMA Refuses ==
  ASSUME LaunchConstantsOK, NEW l \in Launches, NEW pc \in Ended, job \in [Launches -> Job],
         Return(l, pc)
  PROVE  Returned(l, pc)
BY ReturnIs DEF Returned

\* A published directory is reused only if it verifies.
LEMMA ReuseIs ==
  ASSUME LaunchConstantsOK, NEW l \in Launches, job \in [Launches -> Job],
         job[l].sha \in Codes, Reuse(l)
  PROVE  \/ Verify(Final(job[l].sha), job[l].sha) /\ StagedAt(l, Final(job[l].sha), job[l].sha)
         \/ Moves(l, "fallback") /\ Keeps(l)
<1> DEFINE c == job[l].sha
<1>1. c \in Codes \cup {NoCode} /\ Final(c) \in Names
  BY NamesApart
<1>2. CASE Verify(Final(c), c)
  <2>1. Staged(l, Final(c), c)
    BY <1>2 DEF Reuse
  <2> HIDE DEF c
  <2>2. StagedAt(l, Final(c), c)
    BY <2>1, <1>1, StagedIs DEF StagedAt
  <2> QED BY <2>2, <1>2 DEF c
<1>3. CASE ~Verify(Final(c), c)
  <2>1. job' = [job EXCEPT ![l].pc = "fallback", ![l].tries = 0]
    BY <1>3 DEF Reuse
  <2>2. job' = [job EXCEPT ![l].tries = 0, ![l].pc = "fallback"]
    BY <2>1 DEF Job
  <2>3. "fallback" \in PCs /\ 0 \in 0..MaxTries
    BY Places DEF Staging
  <2> QED BY <2>2, <2>3, TriesAre
<1> QED BY <1>2, <1>3

\* What a copy holds is the content of the source tree, and without lost writes all of it.
LEMMA CopiesAre ==
  ASSUME NEW l \in Launches, NEW rel \in Names, NEW marker \in Codes \cup {NoCode},
         job \in [Launches -> Job], NEW d \in Copies(l, rel, marker)
  PROVE  /\ d \in Directory
         /\ d.by = l /\ d.code = job[l].source
         /\ "hole" \notin Faults => d.whole = d.checks
<1> DEFINE s == job[l].source
           e == [Empty(l) EXCEPT !.code = s, !.whole = TRUE, !.checks = TRUE,
                                 !.label = rel, !.marker = marker]
<1>1. s \in Codes \cup {NoCode}
  BY DEF Job
<1>2. /\ d = e \/ d = [e EXCEPT !.whole = FALSE, !.checks = FALSE] \/ d = [e EXCEPT !.whole = FALSE]
      /\ "hole" \notin Faults => d = e \/ d = [e EXCEPT !.whole = FALSE, !.checks = FALSE]
  BY DEF Copies
<1> HIDE DEF s
<1>3. Empty(l) \in Directory
  BY DEF Empty, Directory
<1>4. e \in Directory /\ e.by = l /\ e.code = s /\ e.whole = TRUE /\ e.checks = TRUE
  <2>1. e \in Directory
    <3>1. TRUE \in BOOLEAN /\ rel \in Names \cup {NoName}
      OBVIOUS
    <3> QED BY <1>1, <1>3, <3>1, Zenon DEF Directory
  <2>2. e.by = l /\ e.code = s /\ e.whole = TRUE /\ e.checks = TRUE
    BY <1>3 DEF Directory, Empty
  <2> QED BY <2>1, <2>2
<1> HIDE DEF e
<1>5. d \in Directory /\ d.by = l /\ d.code = s
  BY <1>2, <1>4 DEF Directory
<1>6. "hole" \notin Faults => d.whole = d.checks
  BY <1>2, <1>4 DEF Directory
<1> QED BY <1>5, <1>6 DEF s

\* A private directory that the checks let pass holds the content of the source tree.
LEMMA StageIntoIs ==
  ASSUME LaunchConstantsOK, NEW l \in Launches, NEW n \in Names, NEW used \in BOOLEAN,
         job \in [Launches -> Job], job[l].sha \in Codes, StageInto(l, n, job[l].sha, used)
  PROVE  \/ Returned(l, "refused") /\ dirs' = dirs
         \/ \E d \in Directory :
              /\ d.by = l /\ d.code = job[l].source /\ d.checks
              /\ "hole" \notin Faults => d.whole
              /\ dirs' = [dirs EXCEPT ![n] = d]
              /\ IF used THEN StagedAt(l, n, job[l].sha) ELSE Moves(l, "rename") /\ Keeps(l)
         \/ Moves(l, job[l].pc) /\ Keeps(l) /\ dirs' = dirs
<1> DEFINE c == job[l].sha
           rel == IF used THEN n ELSE Final(c)
<1>1. CASE Return(l, "refused") /\ dirs' = dirs
  <2>1. "refused" \in Ended
    BY DEF Ended
  <2> QED BY <1>1, <2>1, Refuses
<1>2. ASSUME NEW d \in Copies(l, rel, c),
             IF d.checks
             THEN /\ dirs' = [dirs EXCEPT ![n] = d]
                  /\ IF used THEN Staged(l, n, c) ELSE Goto(l, "rename")
             ELSE dirs' = dirs /\ Again(l, job[l].pc)
      PROVE  \/ Returned(l, "refused") /\ dirs' = dirs
             \/ \E e \in Directory :
                  /\ e.by = l /\ e.code = job[l].source /\ e.checks
                  /\ "hole" \notin Faults => e.whole
                  /\ dirs' = [dirs EXCEPT ![n] = e]
                  /\ IF used THEN StagedAt(l, n, c) ELSE Moves(l, "rename") /\ Keeps(l)
             \/ Moves(l, job[l].pc) /\ Keeps(l) /\ dirs' = dirs
  <2>1. rel \in Names /\ c \in Codes \cup {NoCode}
    BY NamesApart
  <2> HIDE DEF rel, c
  <2>2. /\ d \in Directory /\ d.by = l /\ d.code = job[l].source
        /\ ("hole" \notin Faults => d.whole = d.checks)
    BY <2>1, CopiesAre
  <2>3. CASE d.checks
    <3>1. "rename" \in PCs
      BY Places DEF Staging
    <3>2. IF used THEN StagedAt(l, n, c) ELSE Moves(l, "rename") /\ Keeps(l)
      BY <2>1, <2>3, <1>2, <3>1, StagedIs, GotoIs DEF StagedAt
    <3>3. "hole" \notin Faults => d.whole
      BY <2>2, <2>3
    <3>4. dirs' = [dirs EXCEPT ![n] = d]
      BY <1>2, <2>3
    <3> QED BY <2>2, <2>3, <3>2, <3>3, <3>4
  <2>4. CASE ~d.checks
    <3>1. job[l].pc \in PCs
      BY DEF Job
    <3> QED BY <1>2, <2>4, <3>1, AgainIs
  <2> QED BY <2>3, <2>4
<1> HIDE DEF rel
<1>3. \/ Return(l, "refused") /\ dirs' = dirs
      \/ \E d \in Copies(l, rel, c) :
             IF d.checks
             THEN /\ dirs' = [dirs EXCEPT ![n] = d]
                  /\ IF used THEN Staged(l, n, c) ELSE Goto(l, "rename")
             ELSE dirs' = dirs /\ Again(l, job[l].pc)
  BY DEF StageInto, rel
<1> QED BY <1>1, <1>2, <1>3

\* The directory to be published.
LEMMA StageTempIs ==
  ASSUME LaunchConstantsOK, NEW l \in Launches, job \in [Launches -> Job],
         job[l].sha \in Codes, StageTemp(l)
  PROVE  \/ Returned(l, "refused") /\ dirs' = dirs
         \/ \E d \in Directory :
              /\ d.by = l /\ d.code = job[l].source /\ d.checks
              /\ "hole" \notin Faults => d.whole
              /\ dirs' = [dirs EXCEPT ![Temp(l)] = d]
              /\ Moves(l, "rename") /\ Keeps(l)
         \/ Moves(l, job[l].pc) /\ Keeps(l) /\ dirs' = dirs
<1> DEFINE Outcome(used) ==
         \/ Returned(l, "refused") /\ dirs' = dirs
         \/ \E d \in Directory :
              /\ d.by = l /\ d.code = job[l].source /\ d.checks
              /\ "hole" \notin Faults => d.whole
              /\ dirs' = [dirs EXCEPT ![Temp(l)] = d]
              /\ IF used THEN StagedAt(l, Temp(l), job[l].sha) ELSE Moves(l, "rename") /\ Keeps(l)
         \/ Moves(l, job[l].pc) /\ Keeps(l) /\ dirs' = dirs
<1>1. Temp(l) \in Names /\ StageInto(l, Temp(l), job[l].sha, FALSE)
  BY NamesApart DEF StageTemp
<1>2. ASSUME NEW used \in BOOLEAN, StageInto(l, Temp(l), job[l].sha, used)
      PROVE  Outcome(used)
  BY <1>1, <1>2, StageIntoIs
<1>3. Outcome(FALSE)
  <2> HIDE DEF Outcome
  <2> QED BY <1>1, <1>2
<1> QED BY <1>3

\* The directory used in place.
LEMMA StageFallbackIs ==
  ASSUME LaunchConstantsOK, NEW l \in Launches, job \in [Launches -> Job],
         job[l].sha \in Codes, StageFallback(l)
  PROVE  \/ Returned(l, "refused") /\ dirs' = dirs
         \/ \E d \in Directory :
              /\ d.by = l /\ d.code = job[l].source /\ d.checks
              /\ "hole" \notin Faults => d.whole
              /\ dirs' = [dirs EXCEPT ![Fallback(l)] = d]
              /\ StagedAt(l, Fallback(l), job[l].sha)
         \/ Moves(l, job[l].pc) /\ Keeps(l) /\ dirs' = dirs
<1> DEFINE Outcome(used) ==
         \/ Returned(l, "refused") /\ dirs' = dirs
         \/ \E d \in Directory :
              /\ d.by = l /\ d.code = job[l].source /\ d.checks
              /\ "hole" \notin Faults => d.whole
              /\ dirs' = [dirs EXCEPT ![Fallback(l)] = d]
              /\ IF used THEN StagedAt(l, Fallback(l), job[l].sha)
                 ELSE Moves(l, "rename") /\ Keeps(l)
         \/ Moves(l, job[l].pc) /\ Keeps(l) /\ dirs' = dirs
<1>1. Fallback(l) \in Names /\ StageInto(l, Fallback(l), job[l].sha, TRUE)
  BY NamesApart DEF StageFallback
<1>2. ASSUME NEW used \in BOOLEAN, StageInto(l, Fallback(l), job[l].sha, used)
      PROVE  Outcome(used)
  BY <1>1, <1>2, StageIntoIs
<1>3. Outcome(TRUE)
  <2> HIDE DEF Outcome
  <2> QED BY <1>1, <1>2
<1> QED BY <1>3

\* An experiment keeps its maker, what it was to run, and its work units.
XmGrows ==
  \A x \in Xids : /\ xm[x].by # NoLaunch => xm'[x].by = xm[x].by /\ xm'[x].want = xm[x].want
                  /\ xm[x].units \subseteq xm'[x].units

\* Every variable has its type, and the place of each launch tells what it should.
Base == TypeOK /\ PlaceTells

\* A directory just copied, in full unless writes are lost.
Complete(n, c) == "hole" \notin Faults => dirs'[n].whole /\ dirs'[n].code = c

\* Launch l has made an experiment.
NewExperiment(l) ==
  \E x \in Xids : /\ Unused(x) /\ job[l].resumes = NoXid /\ job'[l].xid = x
                  /\ xm' = [xm EXCEPT ![x].by = l, ![x].want = job[l].sha]

\* Where launch l has its stage from: a published directory, its own, or the one the registry has
\* for the experiment it resumes.
Home(l) ==
  \/ /\ job[l].resumes = NoXid
     /\ \/ \E c \in Codes : job'[l].dir = Final(c) /\ job'[l].sha = c
        \/ /\ job'[l].dir = Fallback(l) /\ job'[l].sha = job[l].sha
           /\ job[l].pc \in Staging /\ Complete(Fallback(l), job[l].source)
        \/ job'[l].dir = Run(l) /\ job'[l].sha = job[l].source /\ Complete(Run(l), job[l].source)
  \/ /\ job[l].resumes \in Xids
     /\ registry[job[l].resumes].dir # NoName
     /\ job'[l].dir = registry[job[l].resumes].dir /\ job'[l].sha = xm[job[l].resumes].want

\* The steps of one launch: it prepares, stages once, and then builds from what it staged.
Walks(l) ==
  /\ job[l].pc \notin Ended
  /\ \/ job'[l].pc \in Ended
     \/ /\ job[l].pc \in Preparing /\ job'[l].pc \in Preparing
        /\ job'[l].pc = "rename" => StageTemp(l) \/ (job[l].pc = "rename" /\ "edit" \in Faults)
        /\ job'[l].pc \in Staging =>
             \/ job'[l].sha = job'[l].source
             \/ "edit" \in Faults
             \/ /\ job[l].pc \in Staging
                /\ job'[l].sha = job[l].sha /\ job'[l].source = job[l].source
     \/ /\ job[l].pc \in Preparing /\ job'[l].pc = "buildlock"
        /\ job'[l].resumes = job[l].resumes /\ job'[l].xid = NoXid /\ Home(l)
     \/ /\ job[l].pc \in Building /\ job'[l].pc \in Building
        /\ job'[l].dir = job[l].dir /\ job'[l].sha = job[l].sha
        /\ job'[l].resumes = job[l].resumes
        /\ job'[l].pc = "add" => Package(l)
        /\ job'[l].xid \in {job[l].xid, NoXid, job[l].resumes} \/ NewExperiment(l)

-----------------------------------------------------------------------------
(* Each action is a step of the walk.                                      *)

\* What the place of a launch tells stays true while others move.
LEMMA OthersTell ==
  ASSUME LaunchConstantsOK, TypeOK, NEW m \in Launches, Tells(m), job'[m] = job[m], XmGrows
  PROVE  Tells(m)'
<1>1. job[m].xid \in Xids \cup {NoXid} /\ job[m].resumes \in Xids \cup {NoXid}
  BY DEF TypeOK, Job
<1>2. job[m].resumes # NoXid => xm'[job[m].resumes].by # NoLaunch
  BY <1>1 DEF Tells, XmGrows
<1>3. job[m].pc \in {"record", "print"} \/ job[m].said => xm'[job[m].xid].units # {}
  <2>1. job[m].pc \in {"record", "print"} \/ job[m].said => job[m].xid \in Xids
    BY <1>1 DEF Tells, Attached
  <2> QED BY <2>1 DEF Tells, XmGrows
<1> QED BY <1>2, <1>3 DEF Tells

\* A launch that returned tells nothing that is not so.
LEMMA ReturnedTells ==
  ASSUME LaunchConstantsOK, NEW l \in Launches, NEW pc \in Ended, Returned(l, pc),
         job[l].pc \notin Ended
  PROVE  Tells(l)' /\ Walks(l)
<1>1. pc \notin Preparing \cup Attached \cup {"extract"} /\ pc \notin {"record", "print"}
  BY DEF Ended, Preparing, Attached, Staging
<1> QED BY <1>1 DEF Walks, Tells, Returned, Moves, Ended, Staging, Preparing, Attached, Building,
           Launching

\* A launch that staged walks on to its build.
LEMMA StagedTells ==
  ASSUME LaunchConstantsOK, NEW l \in Launches, NEW n \in Names, NEW c, StagedAt(l, n, c),
         job[l].pc \in Preparing, Tells(l), xm' = xm, Home(l)
  PROVE  Tells(l)' /\ Walks(l)
<1>1. ~job[l].said /\ job[l].xid = NoXid
  BY DEF Tells, Preparing, Attached, Staging
<1> QED BY <1>1 DEF Walks, Tells, StagedAt, Moves, Staging, Preparing, Attached, Ended, Building,
           Launching

\* Start is a step of the walk, and leaves the job a job.
LEMMA StartTells ==
  ASSUME LaunchConstantsOK, Base, NEW l \in Launches, Start(l)
  PROVE  job' \in [Launches -> Job] /\ Others(l) /\ Tells(l)' /\ Walks(l)
<1> USE DEF Base
<1>1. job \in [Launches -> Job] /\ Tells(l)
  BY DEF TypeOK, PlaceTells
<1>2. job[l].pc \notin Ended
  BY DEF Ended, At, Staging, Launching, Start
<1>3. At(l, "start")
  BY DEF Start
<1>4. \/ Return(l, "refused")
      \/ job[l].mode # "resume" /\ Goto(l, "stagelock")
      \/ \E x \in Xids : /\ xm[x].by # NoLaunch /\ job[l].mode = "resume"
                         /\ job' = [job EXCEPT ![l].pc = "stagelock", ![l].resumes = x]
  BY DEF Start
<1>5. xm' = xm
  BY DEF Start
<1>6. CASE Return(l, "refused")
  <2>1. "refused" \in Ended
    BY DEF Ended
  <2>2. Returned(l, "refused")
    BY <1>1, <1>6, <2>1, Refuses
  <2> QED BY <2>1, <2>2, <1>2, ReturnedTells DEF Returned, Moves
<1>7. CASE job[l].mode # "resume" /\ Goto(l, "stagelock")
  <2>1. Moves(l, "stagelock") /\ Keeps(l)
    BY <1>1, <1>7, GotoIs, Places
  <2> QED BY <1>1, <1>3, <1>5, <1>7, <2>1 DEF At, Walks, Tells, Moves, Keeps, Preparing,
             Attached, Staging, Ended, Building, Launching, PCs
<1>8. ASSUME NEW x \in Xids, xm[x].by # NoLaunch, job[l].mode = "resume",
             job' = [job EXCEPT ![l].pc = "stagelock", ![l].resumes = x]
      PROVE  job' \in [Launches -> Job] /\ Others(l) /\ Tells(l)' /\ Walks(l)
  <2>1. /\ Moves(l, "stagelock") /\ job'[l].resumes = x /\ job'[l].source = job[l].source
        /\ job'[l].dir = job[l].dir /\ job'[l].sha = job[l].sha
        /\ job'[l].xid = job[l].xid /\ job'[l].said = job[l].said /\ job'[l].mode = job[l].mode
    BY <1>1, <1>8, ResumesIs
  <2>2. x # NoXid /\ "resume" \in Modes
    BY <1>1, <1>8, Places DEF Job
  <2> QED BY <1>1, <1>3, <1>5, <1>8, <2>1, <2>2 DEF At, Walks, Tells, Moves, Keeps, Preparing,
             Attached, Staging, Ended, Building, Launching, PCs
<1> QED BY <1>4, <1>6, <1>7, <1>8

\* StageLock is a step of the walk, and leaves the job a job.
LEMMA StageLockTells ==
  ASSUME LaunchConstantsOK, Base, NEW l \in Launches, StageLock(l)
  PROVE  job' \in [Launches -> Job] /\ Others(l) /\ Tells(l)' /\ Walks(l)
<1> USE DEF Base
<1>1. job \in [Launches -> Job] /\ Tells(l)
  BY DEF TypeOK, PlaceTells
<1>2. job[l].pc \notin Ended
  BY DEF Ended, At, Staging, Launching, StageLock
<1>3. job[l].pc = "stagelock" /\ xm' = xm /\ TakeLock(l, "stage", StagePC(l))
  BY DEF StageLock, At
<1>4. job[l].mode \in {"ca", "fresh", "resume", "none"}
  BY <1>1 DEF LaunchConstantsOK, Job
<1>5. job[l].mode # "none" => /\ StagePC(l) \in {"hash", "fresh", "resume"}
                              /\ StagePC(l) = "resume" <=> job[l].mode = "resume"
  BY <1>4 DEF StagePC
<1>6. job[l].mode # "none"
  BY <1>1, <1>3 DEF Tells
<1>7. Moves(l, StagePC(l)) /\ Keeps(l)
  BY <1>1, <1>3, <1>5, <1>6, TakeLockIs, Places
<1> QED BY <1>1, <1>3, <1>5, <1>6, <1>7 DEF Walks, Tells, Moves, Keeps, Preparing, Attached,
           Staging, Ended, Building, Launching, PCs

\* Hash is a step of the walk, and leaves the job a job.
LEMMA HashTells ==
  ASSUME LaunchConstantsOK, Base, NEW l \in Launches, Hash(l)
  PROVE  job' \in [Launches -> Job] /\ Others(l) /\ Tells(l)' /\ Walks(l)
<1> USE DEF Base
<1>1. job \in [Launches -> Job] /\ Tells(l)
  BY DEF TypeOK, PlaceTells
<1>2. job[l].pc \notin Ended
  BY DEF Ended, At, Staging, Launching, Hash
<1>3. /\ job[l].pc = "hash" /\ xm' = xm
      /\ job' = [job EXCEPT ![l].pc = "look", ![l].sha = job[l].source]
  BY DEF Hash, At
<1>4. /\ Moves(l, "look") /\ job'[l].sha = job[l].source /\ job'[l].source = job[l].source
      /\ job'[l].dir = job[l].dir
      /\ job'[l].xid = job[l].xid /\ job'[l].said = job[l].said /\ job'[l].resumes = job[l].resumes
  BY <1>1, <1>3, HashIs
<1> QED BY <1>1, <1>3, <1>4 DEF Walks, Tells, Moves, Keeps, Preparing, Attached, Staging, Ended,
           Building, Launching, PCs

\* A reuse is one of the steps of a launch.
LEMMA ReuseTells ==
  ASSUME LaunchConstantsOK, Base, NEW l \in Launches, job[l].pc \in Staging, xm' = xm, Reuse(l)
  PROVE  job' \in [Launches -> Job] /\ Others(l) /\ Tells(l)' /\ Walks(l)
<1> USE DEF Base
<1>1. job \in [Launches -> Job] /\ Tells(l)
  BY DEF TypeOK, PlaceTells
<1>2. job[l].pc \notin Ended
  BY DEF Ended, At, Staging, Launching
<1>3. job[l].sha \in Codes
  BY <1>1 DEF Tells
<1>4. CASE StagedAt(l, Final(job[l].sha), job[l].sha)
  <2>1. job[l].pc \in Preparing
    BY DEF Preparing
  <2>2. Home(l)
    BY <1>1, <1>3, <1>4, <2>1 DEF Home, StagedAt, Tells, Staging
  <2> QED BY <1>1, <1>3, <1>4, <2>1, <2>2, StagedTells, NamesApart DEF StagedAt, Moves
<1>5. CASE Moves(l, "fallback") /\ Keeps(l)
  BY <1>1, <1>5 DEF Walks, Tells, Moves, Keeps, Preparing, Attached, Staging, Ended, Building,
     Launching, PCs
<1> QED BY <1>1, <1>3, <1>4, <1>5, ReuseIs

\* So is one more try.
LEMMA AgainTells ==
  ASSUME LaunchConstantsOK, Base, NEW l \in Launches, job[l].pc \in Staging \cup {"fresh"},
         xm' = xm,
         NEW pc \in {"temp", "fresh"}, pc = "fresh" <=> job[l].pc = "fresh", Again(l, pc)
  PROVE  job' \in [Launches -> Job] /\ Others(l) /\ Tells(l)' /\ Walks(l)
<1> USE DEF Base
<1>1. job \in [Launches -> Job] /\ Tells(l)
  BY DEF TypeOK, PlaceTells
<1>2. job[l].pc \notin Ended
  BY DEF Ended, At, Staging, Launching
<1>3. CASE Moves(l, pc) /\ Keeps(l)
  BY <1>1, <1>3 DEF Walks, Tells, Moves, Keeps, Preparing, Attached, Staging, Ended, Building,
     Launching, PCs
<1>4. CASE Returned(l, "refused")
  <2>1. "refused" \in Ended
    BY DEF Ended
  <2> QED BY <1>4, <2>1, <1>2, ReturnedTells DEF Returned, Moves
<1>5. pc \in PCs
  BY Places DEF Staging
<1> QED BY <1>1, <1>3, <1>4, <1>5, AgainIs

\* Look is a step of the walk, and leaves the job a job.
LEMMA LookTells ==
  ASSUME LaunchConstantsOK, Base, NEW l \in Launches, Look(l)
  PROVE  job' \in [Launches -> Job] /\ Others(l) /\ Tells(l)' /\ Walks(l)
<1> USE DEF Base
<1>1. job \in [Launches -> Job] /\ Tells(l)
  BY DEF TypeOK, PlaceTells
<1>2. job[l].pc \notin Ended
  BY DEF Ended, At, Staging, Launching, Look
<1>3. job[l].pc = "look" /\ xm' = xm /\ job[l].pc \in Staging
  BY DEF Look, At, Staging
<1>4. CASE Reuse(l)
  BY <1>3, <1>4, ReuseTells
<1>5. CASE Goto(l, "temp")
  <2>1. Moves(l, "temp") /\ Keeps(l)
    BY <1>1, <1>5, GotoIs, Places DEF Staging
  <2> QED BY <1>1, <1>3, <2>1 DEF Walks, Tells, Moves, Keeps, Preparing, Attached, Staging,
             Ended, Building, Launching, PCs
<1> QED BY <1>4, <1>5 DEF Look

\* So is a copy.
LEMMA StageIntoTells ==
  ASSUME LaunchConstantsOK, Base, NEW l \in Launches, job[l].pc \in {"temp", "fallback"}, xm' = xm,
         NEW n \in Names, NEW used \in BOOLEAN, used => n = Fallback(l),
         used \/ StageTemp(l), StageInto(l, n, job[l].sha, used)
  PROVE  job' \in [Launches -> Job] /\ Others(l) /\ Tells(l)' /\ Walks(l)
<1> USE DEF Base
<1>1. job \in [Launches -> Job] /\ Tells(l)
  BY DEF TypeOK, PlaceTells
<1>2. job[l].pc \notin Ended
  BY DEF Ended, At, Staging, Launching
<1>3. job[l].sha \in Codes /\ job[l].pc \in Staging
  BY <1>1 DEF Tells, Staging
<1>4. CASE Returned(l, "refused")
  <2>1. "refused" \in Ended
    BY DEF Ended
  <2> QED BY <1>4, <2>1, <1>2, ReturnedTells DEF Returned, Moves
<1>5. CASE used /\ StagedAt(l, n, job[l].sha) /\ Complete(n, job[l].source)
  <2>1. job[l].pc \in Preparing
    BY DEF Preparing, Staging
  <2>2. Home(l)
    BY <1>1, <1>3, <1>5, <2>1 DEF Home, StagedAt, Tells, Staging
  <2> QED BY <1>1, <1>5, <2>1, <2>2, StagedTells DEF StagedAt, Moves
<1>6. CASE ~used /\ Moves(l, "rename") /\ Keeps(l)
  BY <1>1, <1>3, <1>6 DEF Walks, Tells, Moves, Keeps, Preparing, Attached, Staging, Ended,
     Building, Launching, PCs
<1>7. CASE Moves(l, job[l].pc) /\ Keeps(l)
  BY <1>1, <1>3, <1>7 DEF Walks, Tells, Moves, Keeps, Preparing, Attached, Staging, Ended,
     Building, Launching, PCs
<1>8. \/ Returned(l, "refused")
      \/ \E d \in Directory :
           /\ d.code = job[l].source
           /\ "hole" \notin Faults => d.whole
           /\ dirs' = [dirs EXCEPT ![n] = d]
           /\ IF used THEN StagedAt(l, n, job[l].sha) ELSE Moves(l, "rename") /\ Keeps(l)
      \/ Moves(l, job[l].pc) /\ Keeps(l)
  BY <1>1, <1>3, StageIntoIs
<1>9. \A d \in Directory : dirs' = [dirs EXCEPT ![n] = d] => dirs'[n] = d
  BY DEF TypeOK
<1> QED BY <1>1, <1>4, <1>5, <1>6, <1>7, <1>8, <1>9 DEF Complete

\* StageTemp is a step of the walk, and leaves the job a job.
LEMMA StageTempTells ==
  ASSUME LaunchConstantsOK, Base, NEW l \in Launches, StageTemp(l)
  PROVE  job' \in [Launches -> Job] /\ Others(l) /\ Tells(l)' /\ Walks(l)
<1> USE DEF Base
<1>1. job \in [Launches -> Job] /\ Tells(l)
  BY DEF TypeOK, PlaceTells
<1>2. job[l].pc \notin Ended
  BY DEF Ended, At, Staging, Launching, StageTemp
<1>3. job[l].pc \in {"temp", "fallback"} /\ xm' = xm /\ StageInto(l, Temp(l), job[l].sha, FALSE)
  BY DEF StageTemp, At, Staging
<1>4. Temp(l) \in Names
  BY NamesApart
<1> QED BY <1>3, <1>4, StageIntoTells

\* StageFallback is a step of the walk, and leaves the job a job.
LEMMA StageFallbackTells ==
  ASSUME LaunchConstantsOK, Base, NEW l \in Launches, StageFallback(l)
  PROVE  job' \in [Launches -> Job] /\ Others(l) /\ Tells(l)' /\ Walks(l)
<1> USE DEF Base
<1>1. job \in [Launches -> Job] /\ Tells(l)
  BY DEF TypeOK, PlaceTells
<1>2. job[l].pc \notin Ended
  BY DEF Ended, At, Staging, Launching, StageFallback
<1>3. job[l].pc \in {"temp", "fallback"} /\ xm' = xm /\ StageInto(l, Fallback(l), job[l].sha, TRUE)
  BY DEF StageFallback, At, Staging
<1>4. Fallback(l) \in Names
  BY NamesApart
<1> QED BY <1>3, <1>4, StageIntoTells

\* Publish is a step of the walk, and leaves the job a job.
LEMMA PublishTells ==
  ASSUME LaunchConstantsOK, Base, NEW l \in Launches, Publish(l)
  PROVE  job' \in [Launches -> Job] /\ Others(l) /\ Tells(l)' /\ Walks(l)
<1> USE DEF Base
<1>1. job \in [Launches -> Job] /\ Tells(l)
  BY DEF TypeOK, PlaceTells
<1>2. job[l].pc \notin Ended
  BY DEF Ended, At, Staging, Launching, Publish
<1>3. job[l].pc = "rename" /\ xm' = xm /\ job[l].pc \in Staging /\ job[l].sha \in Codes
  BY <1>1 DEF Publish, At, Staging, Tells
<1>4. \/ Staged(l, Final(job[l].sha), job[l].sha) \/ Reuse(l) \/ Again(l, "temp")
  BY DEF Publish
<1>5. CASE Staged(l, Final(job[l].sha), job[l].sha)
  <2> DEFINE c == job[l].sha
  <2>1. Final(c) \in Names /\ c \in Codes \cup {NoCode}
    BY <1>3, NamesApart
  <2> HIDE DEF c
  <2>2. StagedAt(l, Final(c), c)
    BY <1>1, <1>5, <2>1, StagedIs DEF StagedAt, c
  <2>3. job[l].pc \in Preparing
    BY <1>3 DEF Preparing
  <2>4. Home(l)
    BY <1>1, <1>3, <2>1, <2>2, <2>3 DEF Home, StagedAt, Tells, Staging, c
  <2> QED BY <1>1, <1>3, <2>1, <2>2, <2>3, <2>4, StagedTells DEF StagedAt, Moves
<1>6. CASE Reuse(l)
  BY <1>3, <1>6, ReuseTells
<1>7. CASE Again(l, "temp")
  <2>1. "temp" \in {"temp", "fresh"} /\ "temp" # "fresh" /\ job[l].pc # "fresh"
    BY <1>3 DEF Staging
  <2> QED BY <1>3, <1>7, <2>1, AgainTells
<1> QED BY <1>4, <1>5, <1>6, <1>7

\* StageFresh is a step of the walk, and leaves the job a job.
LEMMA StageFreshTells ==
  ASSUME LaunchConstantsOK, Base, NEW l \in Launches, StageFresh(l)
  PROVE  job' \in [Launches -> Job] /\ Others(l) /\ Tells(l)' /\ Walks(l)
<1> USE DEF Base
<1>1. job \in [Launches -> Job] /\ Tells(l)
  BY DEF TypeOK, PlaceTells
<1>2. job[l].pc \notin Ended
  BY DEF Ended, At, Staging, Launching, StageFresh
<1>3. job[l].pc = "fresh" /\ xm' = xm /\ job[l].source \in Codes \cup {NoCode} /\ Run(l) \in Names
  BY <1>1, NamesApart DEF StageFresh, At, Job
<1>4. \/ Return(l, "refused") \/ Again(l, "fresh")
      \/ \E d \in Copies(l, Run(l), NoCode) :
           d.checks /\ dirs' = [dirs EXCEPT ![Run(l)] = d] /\ Staged(l, Run(l), job[l].source)
  BY DEF StageFresh
<1>5. \A d \in Copies(l, Run(l), NoCode) :
        /\ d.code = job[l].source /\ ("hole" \notin Faults => d.whole = d.checks)
        /\ dirs' = [dirs EXCEPT ![Run(l)] = d] => dirs'[Run(l)] = d
  BY <1>1, <1>3, CopiesAre DEF TypeOK
<1>6. \/ Return(l, "refused") \/ Again(l, "fresh")
      \/ Staged(l, Run(l), job[l].source) /\ Complete(Run(l), job[l].source)
  BY <1>4, <1>5 DEF Complete
<1>7. CASE Return(l, "refused")
  <2>1. "refused" \in Ended
    BY DEF Ended
  <2>2. Returned(l, "refused")
    BY <1>1, <1>7, <2>1, Refuses
  <2> QED BY <2>1, <2>2, <1>2, ReturnedTells DEF Returned, Moves
<1>8. CASE Staged(l, Run(l), job[l].source) /\ Complete(Run(l), job[l].source)
  <2>1. StagedAt(l, Run(l), job[l].source)
    BY <1>1, <1>3, <1>8, StagedIs DEF StagedAt
  <2>2. job[l].pc \in Preparing
    BY <1>3 DEF Preparing
  <2>3. Home(l)
    BY <1>1, <1>3, <1>8, <2>1, <2>2 DEF Home, StagedAt, Tells, Staging
  <2> QED BY <1>1, <1>3, <2>1, <2>2, <2>3, StagedTells DEF StagedAt, Moves
<1>9. CASE Again(l, "fresh")
  BY <1>3, <1>9, AgainTells
<1> QED BY <1>6, <1>7, <1>8, <1>9

\* StageResume is a step of the walk, and leaves the job a job.
LEMMA StageResumeTells ==
  ASSUME LaunchConstantsOK, Base, NEW l \in Launches, StageResume(l)
  PROVE  job' \in [Launches -> Job] /\ Others(l) /\ Tells(l)' /\ Walks(l)
<1> USE DEF Base
<1>1. job \in [Launches -> Job] /\ Tells(l)
  BY DEF TypeOK, PlaceTells
<1>2. job[l].pc \notin Ended
  BY DEF Ended, At, Staging, Launching, StageResume
<1> DEFINE x == job[l].resumes
           n == registry[x].dir
<1>3. job[l].pc = "resume" /\ xm' = xm
  BY DEF StageResume, At
<1>4. x \in Xids
  BY <1>1, <1>3 DEF Tells, Job
<1>5. n \in Names \cup {NoName} /\ xm[x].want \in Codes \cup {NoCode}
  BY <1>4 DEF TypeOK, Entry, Experiment
<1>6. \/ n # NoName /\ Staged(l, n, xm[x].want)
      \/ Return(l, "refused")
  BY DEF StageResume
<1>7. CASE Return(l, "refused")
  <2>1. "refused" \in Ended
    BY DEF Ended
  <2>2. Returned(l, "refused")
    BY <1>1, <1>7, <2>1, Refuses
  <2> QED BY <2>1, <2>2, <1>2, ReturnedTells DEF Returned, Moves
<1>8. CASE n # NoName /\ Staged(l, n, xm[x].want)
  <2>1. n \in Names
    BY <1>5, <1>8
  <2> HIDE DEF n, x
  <2>2. StagedAt(l, n, xm[x].want)
    BY <1>1, <1>5, <1>8, <2>1, StagedIs DEF StagedAt
  <2>3. job[l].pc \in Preparing
    BY <1>3 DEF Preparing
  <2>4. Home(l)
    BY <1>1, <1>3, <1>4, <1>8, <2>1, <2>2, <2>3 DEF Home, StagedAt, Tells, Staging, n, x
  <2> QED BY <1>1, <1>3, <2>1, <2>2, <2>3, <2>4, StagedTells DEF StagedAt, Moves
<1> QED BY <1>6, <1>7, <1>8

\* BuildLock is a step of the walk, and leaves the job a job.
LEMMA BuildLockTells ==
  ASSUME LaunchConstantsOK, Base, NEW l \in Launches, BuildLock(l)
  PROVE  job' \in [Launches -> Job] /\ Others(l) /\ Tells(l)' /\ Walks(l)
<1> USE DEF Base
<1>1. job \in [Launches -> Job] /\ Tells(l)
  BY DEF TypeOK, PlaceTells
<1>2. job[l].pc \notin Ended
  BY DEF Ended, At, Staging, Launching, BuildLock
<1>3. job[l].pc = "buildlock" /\ xm' = xm /\ TakeLock(l, "build", "group")
  BY DEF BuildLock, At
<1>4. Moves(l, "group") /\ Keeps(l)
  BY <1>1, <1>3, TakeLockIs, Places DEF Building
<1> QED BY <1>1, <1>3, <1>4 DEF Walks, Tells, Moves, Keeps, Preparing, Attached, Staging, Ended,
           Building, Launching, PCs

\* Group is a step of the walk, and leaves the job a job.
LEMMA GroupTells ==
  ASSUME LaunchConstantsOK, Base, NEW l \in Launches, Group(l)
  PROVE  job' \in [Launches -> Job] /\ Others(l) /\ Tells(l)' /\ Walks(l)
<1> USE DEF Base
<1>1. job \in [Launches -> Job] /\ Tells(l)
  BY DEF TypeOK, PlaceTells
<1>2. job[l].pc \notin Ended
  BY DEF Ended, At, Staging, Launching, Group
<1>3. job[l].pc = "group" /\ xm' = xm
  BY DEF Group, At
<1>4. \/ Return(l, "done") \/ Return(l, "refused")
      \/ /\ job[l].groups # 0
         /\ job' = [job EXCEPT ![l].pc = "create", ![l].groups = @ - 1, ![l].retried = FALSE]
  BY DEF Group
<1>5. CASE Return(l, "done")
  <2>1. "done" \in Ended
    BY DEF Ended
  <2>2. Returned(l, "done")
    BY <1>1, <1>5, <2>1, Refuses
  <2> QED BY <2>1, <2>2, <1>2, ReturnedTells DEF Returned, Moves
<1>6. CASE Return(l, "refused")
  <2>1. "refused" \in Ended
    BY DEF Ended
  <2>2. Returned(l, "refused")
    BY <1>1, <1>6, <2>1, Refuses
  <2> QED BY <2>1, <2>2, <1>2, ReturnedTells DEF Returned, Moves
<1>7. CASE /\ job[l].groups # 0
           /\ job' = [job EXCEPT ![l].pc = "create", ![l].groups = @ - 1, ![l].retried = FALSE]
  <2>1. Moves(l, "create") /\ Keeps(l)
    BY <1>1, <1>7, GroupIs
  <2> QED BY <1>1, <1>3, <2>1 DEF Walks, Tells, Moves, Keeps, Preparing, Attached, Staging,
             Ended, Building, Launching, PCs
<1> QED BY <1>4, <1>5, <1>6, <1>7

\* Create is a step of the walk, and leaves the job a job.
LEMMA CreateTells ==
  ASSUME LaunchConstantsOK, Base, NEW l \in Launches, Create(l)
  PROVE  job' \in [Launches -> Job] /\ Others(l) /\ Tells(l)' /\ Walks(l)
<1> USE DEF Base
<1>1. job \in [Launches -> Job] /\ Tells(l)
  BY DEF TypeOK, PlaceTells
<1>2. job[l].pc \notin Ended
  BY DEF Ended, At, Staging, Launching, Create
<1>3. job[l].pc = "create"
  BY DEF Create, At
<1>4. \/ /\ job[l].resumes # NoXid /\ xm' = xm
         /\ job' = [job EXCEPT ![l].pc = "prepare", ![l].xid = job[l].resumes]
      \/ \E x \in Xids : /\ job[l].resumes = NoXid /\ Unused(x)
                         /\ xm' = [xm EXCEPT ![x].by = l, ![x].want = job[l].sha]
                         /\ job' = [job EXCEPT ![l].pc = "prepare", ![l].xid = x]
      \/ /\ job[l].resumes = NoXid /\ xm' = xm
         /\ job' = [job EXCEPT ![l].pc = "extract", ![l].xid = NoXid, ![l].retried = TRUE]
  BY DEF Create
<1>5. ASSUME NEW x \in Xids,
             \/ job[l].resumes = x /\ xm' = xm
             \/ /\ job[l].resumes = NoXid /\ Unused(x)
                /\ xm' = [xm EXCEPT ![x].by = l, ![x].want = job[l].sha],
             job' = [job EXCEPT ![l].pc = "prepare", ![l].xid = x]
      PROVE  job' \in [Launches -> Job] /\ Others(l) /\ Tells(l)' /\ Walks(l)
  <2>1. /\ Moves(l, "prepare") /\ job'[l].xid = x /\ job'[l].source = job[l].source
        /\ job'[l].dir = job[l].dir /\ job'[l].sha = job[l].sha
        /\ job'[l].resumes = job[l].resumes /\ job'[l].said = job[l].said
    BY <1>1, <1>5, PreparesIs
  <2>2. x # NoXid /\ ~job[l].said
    BY <1>1, <1>3, Places DEF Tells
  <2>3. job[l].resumes # NoXid => xm'[job[l].resumes].by # NoLaunch
    BY <1>1, <1>5 DEF Tells
  <2>4. x = job[l].resumes \/ NewExperiment(l)
    BY <1>5, <2>1 DEF NewExperiment
  <2> QED BY <1>1, <1>3, <1>5, <2>1, <2>2, <2>3, <2>4 DEF Walks, Tells, Moves, Keeps, Preparing,
             Attached, Staging, Ended, Building, Launching, PCs
<1>6. CASE /\ job[l].resumes = NoXid /\ xm' = xm
           /\ job' = [job EXCEPT ![l].pc = "extract", ![l].xid = NoXid, ![l].retried = TRUE]
  <2>1. /\ Moves(l, "extract") /\ job'[l].xid = NoXid /\ job'[l].source = job[l].source
        /\ job'[l].dir = job[l].dir /\ job'[l].sha = job[l].sha
        /\ job'[l].resumes = job[l].resumes /\ job'[l].said = job[l].said
    BY <1>1, <1>6, GivesUpIs
  <2> QED BY <1>1, <1>3, <1>6, <2>1 DEF Walks, Tells, Moves, Keeps, Preparing, Attached, Staging,
             Ended, Building, Launching, PCs
<1>7. job[l].resumes # NoXid => job[l].resumes \in Xids
  BY <1>1 DEF Job
<1> QED BY <1>4, <1>5, <1>6, <1>7

\* A launcher that stops leaves its experiment to the wrapper.
LEMMA StopsTells ==
  ASSUME LaunchConstantsOK, Base, NEW l \in Launches,
         job[l].pc \in {"prepare", "package", "add", "record", "print"}, xm' = xm,
         LauncherStops(l)
  PROVE  job' \in [Launches -> Job] /\ Others(l) /\ Tells(l)' /\ Walks(l)
<1> USE DEF Base
<1>1. job \in [Launches -> Job] /\ Tells(l)
  BY DEF TypeOK, PlaceTells
<1>2. job[l].pc \notin Ended
  BY DEF Ended, At, Staging, Launching
<1>3. Goto(l, "extract")
  BY DEF LauncherStops, Goto
<1>4. Moves(l, "extract") /\ Keeps(l)
  BY <1>1, <1>3, GotoIs, Places DEF Building, Launching
<1> QED BY <1>1, <1>1, <1>4 DEF Walks, Tells, Moves, Keeps, Preparing, Attached, Staging, Ended,
           Building, Launching, PCs

\* Prepare is a step of the walk, and leaves the job a job.
LEMMA PrepareTells ==
  ASSUME LaunchConstantsOK, Base, NEW l \in Launches, Prepare(l)
  PROVE  job' \in [Launches -> Job] /\ Others(l) /\ Tells(l)' /\ Walks(l)
<1> USE DEF Base
<1>1. job \in [Launches -> Job] /\ Tells(l)
  BY DEF TypeOK, PlaceTells
<1>2. job[l].pc \notin Ended
  BY DEF Ended, At, Staging, Launching, Prepare
<1>3. job[l].pc = "prepare" /\ xm' = xm /\ (Goto(l, "package") \/ LauncherStops(l))
  BY DEF Prepare, At
<1>4. CASE Goto(l, "package")
  <2>1. Moves(l, "package") /\ Keeps(l)
    BY <1>1, <1>4, GotoIs, Places DEF Building, Launching
  <2> QED BY <1>1, <1>3, <2>1 DEF Walks, Tells, Moves, Keeps, Preparing, Attached, Staging,
             Ended, Building, Launching, PCs
<1> QED BY <1>3, <1>4, StopsTells

\* A package is a cached one of the label, or what a build of the directory gives.
LEMMA PackageIs ==
  ASSUME LaunchConstantsOK, Base, NEW l \in Launches, Package(l)
  PROVE  \/ /\ packages' = packages
            /\ \/ Cached(job[l].dir) /\ Packaged(l, packages[job[l].dir])
               \/ LauncherStops(l) \/ Goto(l, "wedged")
         \/ \E c \in Build(job[l].dir) :
              /\ Packaged(l, c)
              /\ packages' = IF ContentAddressed(job[l].dir)
                             THEN [packages EXCEPT ![job[l].dir] = c] ELSE packages
BY DEF Package

\* A build of a whole directory gives its content, or what the collector left of it.
LEMMA BuildIs ==
  ASSUME LaunchConstantsOK, Base, NEW n \in Names, NEW c \in Build(n)
  PROVE  /\ c \in Contents /\ Exists(n) /\ dirs[n] \in Directory /\ dirs[n].checks
         /\ dirs[n].whole => c \in {dirs[n].code, Remnant(dirs[n].code)}
<1>1. dirs[n] \in Directory \cup {Absent}
  BY DEF Base, TypeOK
<1>2. /\ Exists(n) /\ dirs[n].checks
      /\ \/ ~dirs[n].whole /\ c = NoCode
         \/ c \in {dirs[n].code, Remnant(dirs[n].code)}
  BY DEF Build
<1>3. dirs[n] \in Directory
  BY <1>1, <1>2 DEF Exists
<1>4. dirs[n].code \in Codes \cup {NoCode}
  BY <1>3 DEF Directory
<1> QED BY <1>2, <1>3, <1>4 DEF Contents

\* Package is a step of the walk, and leaves the job a job.
LEMMA PackageTells ==
  ASSUME LaunchConstantsOK, Base, NEW l \in Launches, Package(l)
  PROVE  job' \in [Launches -> Job] /\ Others(l) /\ Tells(l)' /\ Walks(l)
<1> USE DEF Base
<1>1. job \in [Launches -> Job] /\ Tells(l)
  BY DEF TypeOK, PlaceTells
<1>2. job[l].pc \notin Ended
  BY DEF Ended, At, Staging, Launching, Package
<1>3. job[l].pc = "package" /\ xm' = xm /\ job[l].dir \in Names
  BY <1>1 DEF Package, At, Tells, Building, Launching
<1>4. packages[job[l].dir] \in Contents
  BY <1>3 DEF TypeOK
<1>5. ASSUME NEW c \in Contents, Packaged(l, c)
      PROVE  job' \in [Launches -> Job] /\ Others(l) /\ Tells(l)' /\ Walks(l)
  <2>1. /\ Moves(l, "add") /\ job'[l].said = job[l].said /\ job'[l].source = job[l].source
        /\ job'[l].dir = job[l].dir /\ job'[l].sha = job[l].sha
        /\ job'[l].resumes = job[l].resumes /\ job'[l].xid = job[l].xid
    BY <1>1, <1>5, PackagedIs
  <2> QED BY <1>1, <1>3, <2>1 DEF Walks, Tells, Moves, Keeps, Preparing, Attached, Staging,
             Ended, Building, Launching, PCs
<1>6. CASE LauncherStops(l)
  BY <1>3, <1>6, StopsTells
<1>7. CASE Goto(l, "wedged")
  <2>1. Moves(l, "wedged") /\ Keeps(l)
    BY <1>1, <1>7, GotoIs, Places DEF Building, Launching
  <2> QED BY <1>1, <1>3, <2>1 DEF Walks, Tells, Moves, Keeps, Preparing, Attached, Staging,
             Ended, Building, Launching, PCs
<1>8. \A c \in Build(job[l].dir) : c \in Contents
  BY <1>3, BuildIs
<1> QED BY <1>4, <1>5, <1>6, <1>7, <1>8, PackageIs

\* Add is a step of the walk, and leaves the job a job.
LEMMA AddTells ==
  ASSUME LaunchConstantsOK, Base, NEW l \in Launches, Add(l)
  PROVE  job' \in [Launches -> Job] /\ Others(l) /\ Tells(l)' /\ Walks(l)
<1> USE DEF Base
<1>1. job \in [Launches -> Job] /\ Tells(l)
  BY DEF TypeOK, PlaceTells
<1>2. job[l].pc \notin Ended
  BY DEF Ended, At, Staging, Launching, Add
<1>3. /\ job[l].pc = "add" /\ Goto(l, "record")
      /\ xm' = [xm EXCEPT ![job[l].xid].units = @ \cup {job[l].built}]
  BY DEF Add, At
<1>4. Moves(l, "record") /\ Keeps(l)
  BY <1>1, <1>3, GotoIs, Places DEF Building, Launching
<1>5. job[l].xid \in Xids /\ xm[job[l].xid] \in Experiment
  BY <1>1, <1>3 DEF Tells, Attached, Job, TypeOK
<1>6. xm'[job[l].xid].units # {}
  BY <1>3, <1>5 DEF TypeOK, Experiment
<1>7. job[l].resumes # NoXid => xm'[job[l].resumes].by # NoLaunch
  BY <1>1, <1>3, <1>5 DEF TypeOK, Experiment, Tells
<1> QED BY <1>1, <1>3, <1>4, <1>5, <1>6, <1>7 DEF Walks, Tells, Moves, Keeps, Preparing,
           Attached, Staging, Ended, Building, Launching, PCs

\* Record is a step of the walk, and leaves the job a job.
LEMMA RecordTells ==
  ASSUME LaunchConstantsOK, Base, NEW l \in Launches, Record(l)
  PROVE  job' \in [Launches -> Job] /\ Others(l) /\ Tells(l)' /\ Walks(l)
<1> USE DEF Base
<1>1. job \in [Launches -> Job] /\ Tells(l)
  BY DEF TypeOK, PlaceTells
<1>2. job[l].pc \notin Ended
  BY DEF Ended, At, Staging, Launching, Record
<1>3. job[l].pc = "record" /\ xm' = xm /\ Goto(l, "print")
  BY DEF Record, At
<1>4. Moves(l, "print") /\ Keeps(l)
  BY <1>1, <1>3, GotoIs, Places DEF Building, Launching
<1> QED BY <1>1, <1>3, <1>4 DEF Walks, Tells, Moves, Keeps, Preparing, Attached, Staging, Ended,
           Building, Launching, PCs

\* PrintLine is a step of the walk, and leaves the job a job.
LEMMA PrintLineTells ==
  ASSUME LaunchConstantsOK, Base, NEW l \in Launches, PrintLine(l)
  PROVE  job' \in [Launches -> Job] /\ Others(l) /\ Tells(l)' /\ Walks(l)
<1> USE DEF Base
<1>1. job \in [Launches -> Job] /\ Tells(l)
  BY DEF TypeOK, PlaceTells
<1>2. job[l].pc \notin Ended
  BY DEF Ended, At, Staging, Launching, PrintLine
<1>3. job[l].pc = "print" /\ xm' = xm /\ job' = [job EXCEPT ![l].pc = "extract", ![l].said = TRUE]
  BY DEF PrintLine, At
<1>4. /\ Moves(l, "extract") /\ job'[l].said = TRUE /\ job'[l].source = job[l].source
      /\ job'[l].dir = job[l].dir /\ job'[l].sha = job[l].sha
      /\ job'[l].resumes = job[l].resumes /\ job'[l].xid = job[l].xid
  BY <1>1, <1>3, PrintsIs
<1> QED BY <1>1, <1>3, <1>4 DEF Walks, Tells, Moves, Keeps, Preparing, Attached, Staging, Ended,
           Building, Launching, PCs

\* Extract is a step of the walk, and leaves the job a job.
LEMMA ExtractTells ==
  ASSUME LaunchConstantsOK, Base, NEW l \in Launches, Extract(l)
  PROVE  job' \in [Launches -> Job] /\ Others(l) /\ Tells(l)' /\ Walks(l)
<1> USE DEF Base
<1>1. job \in [Launches -> Job] /\ Tells(l)
  BY DEF TypeOK, PlaceTells
<1>2. job[l].pc \notin Ended
  BY DEF Ended, At, Staging, Launching, Extract
<1>3. job[l].pc = "extract" /\ xm' = xm
  BY DEF Extract, At
<1>4. \E pc \in {"group", "create"}, b \in BOOLEAN :
        job' = [job EXCEPT ![l].pc = pc, ![l].retried = b, ![l].said = FALSE,
                           ![l].xid = NoXid, ![l].built = NoCode]
  BY DEF Extract
<1>5. PICK pc \in {"group", "create"} :
        /\ Moves(l, pc) /\ job'[l].said = FALSE /\ job'[l].source = job[l].source
        /\ job'[l].dir = job[l].dir /\ job'[l].sha = job[l].sha
        /\ job'[l].resumes = job[l].resumes /\ job'[l].xid = NoXid
  BY <1>1, <1>4, ExtractsIs, ZenonT(40)
<1> QED BY <1>1, <1>3, <1>5 DEF Walks, Tells, Moves, Keeps, Preparing, Attached, Staging, Ended,
           Building, Launching, PCs

\* Die is a step of the walk, and leaves the job a job.
LEMMA DieTells ==
  ASSUME LaunchConstantsOK, Base, NEW l \in Launches, Die(l)
  PROVE  job' \in [Launches -> Job] /\ Others(l) /\ Tells(l)' /\ Walks(l)
<1> USE DEF Base
<1>1. job \in [Launches -> Job] /\ Tells(l)
  BY DEF TypeOK, PlaceTells
<1>2. job[l].pc \notin Ended
  BY DEF Ended, At, Staging, Launching, Die
<1>3. job[l].pc \in {"prepare", "package", "add", "record", "print"} /\ xm' = xm /\ LauncherStops(l)
  BY DEF Die, Launching
<1> QED BY <1>3, StopsTells

\* Kill is a step of the walk, and leaves the job a job.
LEMMA KillTells ==
  ASSUME LaunchConstantsOK, Base, NEW l \in Launches, Kill(l)
  PROVE  job' \in [Launches -> Job] /\ Others(l) /\ Tells(l)' /\ Walks(l)
<1> USE DEF Base
<1>1. job \in [Launches -> Job] /\ Tells(l)
  BY DEF TypeOK, PlaceTells
<1>2. job[l].pc \notin Ended
  BY DEF Ended, At, Staging, Launching, Kill
<1>3. Return(l, "killed")
  BY DEF Kill
<1>4. CASE Return(l, "killed")
  <2>1. "killed" \in Ended
    BY DEF Ended
  <2>2. Returned(l, "killed")
    BY <1>1, <1>4, <2>1, Refuses
  <2> QED BY <2>1, <2>2, <1>2, ReturnedTells DEF Returned, Moves
<1> QED BY <1>3, <1>4

\* Edit is a step of the walk, and leaves the job a job.
LEMMA EditTells ==
  ASSUME LaunchConstantsOK, Base, NEW l \in Launches, Edit(l)
  PROVE  job' \in [Launches -> Job] /\ Others(l) /\ Tells(l)' /\ Walks(l)
<1> USE DEF Base
<1>1. job \in [Launches -> Job] /\ Tells(l)
  BY DEF TypeOK, PlaceTells
<1>2. job[l].pc \notin Ended
  BY DEF Ended, At, Staging, Launching, Edit
<1>3. /\ job[l].pc \in {"stagelock"} \cup Staging /\ xm' = xm
      /\ job[l].pc \in Staging => "edit" \in Faults
  BY DEF Edit, Staging
<1>4. PICK c \in Codes : job' = [job EXCEPT ![l].source = c]
  BY DEF Edit
<1>5. /\ Moves(l, job[l].pc) /\ job'[l].source = c /\ job'[l].dir = job[l].dir
      /\ job'[l].sha = job[l].sha
      /\ job'[l].mode = job[l].mode /\ job'[l].resumes = job[l].resumes
      /\ job'[l].xid = job[l].xid /\ job'[l].said = job[l].said
  BY <1>1, <1>4, EditIs
<1> QED BY <1>1, <1>3, <1>5 DEF Walks, Tells, Moves, Keeps, Preparing, Attached, Staging, Ended,
           Building, Launching, PCs

-----------------------------------------------------------------------------
(* The types.                                                              *)

\* The types of all but the launches.
OtherTypes ==
  /\ dirs \in [Names -> Directory \cup {Absent}]
  /\ xm \in [Xids -> Experiment]
  /\ registry \in [Xids -> Entry]
  /\ packages \in [Names -> Contents]
  /\ gc \in [pc : {"idle", "planned", "removing"}, plan : SUBSET Names]
  /\ rounds \in 0..MaxRounds

\* A step that changes the launches only.
Quiet == /\ dirs' = dirs /\ xm' = xm /\ registry' = registry /\ packages' = packages
         /\ gc' = gc /\ rounds' = rounds

\* Such a step keeps the types.
LEMMA QuietTypes ==
  ASSUME OtherTypes, Quiet
  PROVE  OtherTypes'
BY DEF OtherTypes, Quiet

\* A step that changes the directories too keeps the types.
LEMMA DirsTypes ==
  ASSUME OtherTypes, dirs' \in [Names -> Directory \cup {Absent}], xm' = xm, registry' = registry,
         packages' = packages, gc' = gc, rounds' = rounds
  PROVE  OtherTypes'
BY DEF OtherTypes

\* An empty directory is one.
LEMMA EmptyIs == ASSUME NEW l \in Launches PROVE Empty(l) \in Directory /\ Empty(l).by = l
BY DEF Empty, Directory

\* Start keeps the types of all but the launches.
LEMMA StartTypes ==
  ASSUME LaunchConstantsOK, Base, NEW l \in Launches, Start(l)
  PROVE  OtherTypes'
<1>1. OtherTypes /\ TypeOK
  BY DEF Base, TypeOK, OtherTypes
<1>2. dirs' = dirs \/ dirs' = [dirs EXCEPT ![Run(l)] = Empty(l)]
  BY DEF Start
<1>3. dirs' \in [Names -> Directory \cup {Absent}]
  BY <1>1, <1>2, EmptyIs DEF OtherTypes
<1> QED BY <1>1, <1>3, DirsTypes DEF Start

\* StageTemp keeps the types of all but the launches.
LEMMA StageTempTypes ==
  ASSUME LaunchConstantsOK, Base, NEW l \in Launches, StageTemp(l)
  PROVE  OtherTypes'
<1>1. OtherTypes /\ TypeOK
  BY DEF Base, TypeOK, OtherTypes
<1>2. /\ job \in [Launches -> Job] /\ job[l].pc \in Staging
      /\ Temp(l) \in Names /\ job[l].sha \in Codes
  BY NamesApart DEF Base, TypeOK, PlaceTells, Tells, StageTemp, At, Staging
<1>3. dirs' = dirs \/ \E d \in Directory : dirs' = [dirs EXCEPT ![Temp(l)] = d]
  BY <1>2, StageTempIs
<1>4. dirs' \in [Names -> Directory \cup {Absent}]
  BY <1>1, <1>3 DEF OtherTypes
<1> QED BY <1>1, <1>4, DirsTypes DEF StageTemp

\* StageFallback keeps the types of all but the launches.
LEMMA StageFallbackTypes ==
  ASSUME LaunchConstantsOK, Base, NEW l \in Launches, StageFallback(l)
  PROVE  OtherTypes'
<1>1. OtherTypes /\ TypeOK
  BY DEF Base, TypeOK, OtherTypes
<1>2. /\ job \in [Launches -> Job] /\ job[l].pc \in Staging
      /\ Fallback(l) \in Names /\ job[l].sha \in Codes
  BY NamesApart DEF Base, TypeOK, PlaceTells, Tells, StageFallback, At, Staging
<1>3. dirs' = dirs \/ \E d \in Directory : dirs' = [dirs EXCEPT ![Fallback(l)] = d]
  BY <1>2, StageFallbackIs
<1>4. dirs' \in [Names -> Directory \cup {Absent}]
  BY <1>1, <1>3 DEF OtherTypes
<1> QED BY <1>1, <1>4, DirsTypes DEF StageFallback

\* Publish keeps the types of all but the launches.
LEMMA PublishTypes ==
  ASSUME LaunchConstantsOK, Base, NEW l \in Launches, Publish(l)
  PROVE  OtherTypes'
<1>1. OtherTypes /\ TypeOK
  BY DEF Base, TypeOK, OtherTypes
<1> DEFINE gone == [dirs EXCEPT ![Temp(l)] = Absent]
<1>2. Temp(l) \in Names /\ dirs[Temp(l)] \in Directory \cup {Absent}
  BY <1>1, NamesApart DEF OtherTypes
<1>3. dirs' = gone \/ dirs' = [gone EXCEPT ![Final(job[l].sha)] = dirs[Temp(l)]]
  BY DEF Publish
<1>4. gone \in [Names -> Directory \cup {Absent}]
  BY <1>1 DEF OtherTypes
<1> HIDE DEF gone
<1>5. dirs' \in [Names -> Directory \cup {Absent}]
  BY <1>2, <1>3, <1>4
<1> QED BY <1>1, <1>5, DirsTypes DEF Publish

\* StageFresh keeps the types of all but the launches.
LEMMA StageFreshTypes ==
  ASSUME LaunchConstantsOK, Base, NEW l \in Launches, StageFresh(l)
  PROVE  OtherTypes'
<1>1. OtherTypes /\ TypeOK
  BY DEF Base, TypeOK, OtherTypes
<1>2. Run(l) \in Names /\ job \in [Launches -> Job]
  BY NamesApart DEF Base, TypeOK
<1>3. \/ dirs' = dirs \/ dirs' = [dirs EXCEPT ![Run(l)] = Empty(l)]
      \/ \E d \in Copies(l, Run(l), NoCode) : dirs' = [dirs EXCEPT ![Run(l)] = d]
  BY DEF StageFresh
<1>4. \A d \in Copies(l, Run(l), NoCode) : d \in Directory
  BY <1>2, CopiesAre
<1>5. dirs' \in [Names -> Directory \cup {Absent}]
  BY <1>1, <1>3, <1>4, EmptyIs DEF OtherTypes
<1> QED BY <1>1, <1>5, DirsTypes DEF StageFresh

\* Create keeps the types of all but the launches.
LEMMA CreateTypes ==
  ASSUME LaunchConstantsOK, Base, NEW l \in Launches, Create(l)
  PROVE  OtherTypes'
<1>1. OtherTypes /\ TypeOK
  BY DEF Base, TypeOK, OtherTypes
<1>2. \/ xm' = xm
      \/ \E x \in Xids : xm' = [xm EXCEPT ![x].by = l, ![x].want = job[l].sha]
  BY DEF Create
<1>3. xm' \in [Xids -> Experiment]
  <2>1. ASSUME NEW x \in Xids, xm' = [xm EXCEPT ![x].by = l, ![x].want = job[l].sha]
        PROVE  xm' \in [Xids -> Experiment]
    <3>1. job[l].sha \in Codes \cup {NoCode} /\ xm[x] \in Experiment
      BY <1>1 DEF TypeOK, Job
    <3>2. [xm[x] EXCEPT !.by = l, !.want = job[l].sha] \in Experiment
      BY <3>1 DEF Experiment
    <3>3. xm' = [xm EXCEPT ![x] = [xm[x] EXCEPT !.by = l, !.want = job[l].sha]]
      BY <2>1, <1>1 DEF OtherTypes, Experiment
    <3> QED BY <3>2, <3>3, <1>1 DEF OtherTypes
  <2> QED BY <1>1, <1>2, <2>1 DEF OtherTypes
<1> QED BY <1>1, <1>3 DEF OtherTypes, Create

\* Package keeps the types of all but the launches.
LEMMA PackageTypes ==
  ASSUME LaunchConstantsOK, Base, NEW l \in Launches, Package(l)
  PROVE  OtherTypes'
<1>1. OtherTypes /\ TypeOK
  BY DEF Base, TypeOK, OtherTypes
<1>2. job[l].dir \in Names
  BY DEF Package, At, Base, PlaceTells, Tells, Building, Launching
<1>3. packages' \in [Names -> Contents]
  BY <1>1, <1>2, PackageIs, BuildIs DEF OtherTypes
<1> QED BY <1>1, <1>3 DEF OtherTypes, Package

\* Add keeps the types of all but the launches.
LEMMA AddTypes ==
  ASSUME LaunchConstantsOK, Base, NEW l \in Launches, Add(l)
  PROVE  OtherTypes'
<1>1. OtherTypes /\ TypeOK
  BY DEF Base, TypeOK, OtherTypes
<1>2. job[l].built \in Contents
  BY <1>1 DEF TypeOK, Job
<1>3. xm' \in [Xids -> Experiment]
  <2> DEFINE u == xm[job[l].xid].units \cup {job[l].built}
  <2>1. xm' = [xm EXCEPT ![job[l].xid].units = u]
    BY DEF Add
  <2>2. job[l].xid \in Xids => u \in SUBSET Contents
    BY <1>1, <1>2 DEF OtherTypes, Experiment
  <2> HIDE DEF u
  <2>3. job[l].xid \in Xids => /\ [xm[job[l].xid] EXCEPT !.units = u] \in Experiment
                               /\ xm' = [xm EXCEPT ![job[l].xid] =
                                            [xm[job[l].xid] EXCEPT !.units = u]]
    BY <1>1, <2>1, <2>2 DEF OtherTypes, Experiment
  <2>4. job[l].xid \in Xids
    BY <1>1 DEF Base, PlaceTells, Tells, Add, At, Attached, TypeOK, Job
  <2> QED BY <1>1, <2>3, <2>4 DEF OtherTypes
<1> QED BY <1>1, <1>3 DEF OtherTypes, Add

\* What a launch writes into the registry is an entry.
LEMMA WrittenIs ==
  ASSUME TypeOK, NEW l \in Launches, NEW x \in Xids, NEW by \in {"launcher", "wrapper"}
  PROVE  Written(l, x, by) \in Entry
<1> DEFINE of == IF registry[x] = NoEntry THEN l ELSE registry[x].of
<1>1. job[l].dir \in Names \cup {NoName}
  BY DEF TypeOK, Job
<1>2. of \in Launches \cup {NoLaunch}
  BY DEF TypeOK, Entry
<1>3. Written(l, x, by) = [by |-> by, dir |-> job[l].dir, of |-> of]
  BY DEF Written
<1> HIDE DEF of
<1> QED BY <1>1, <1>2, <1>3 DEF Entry

\* Record keeps the types of all but the launches.
LEMMA RecordTypes ==
  ASSUME LaunchConstantsOK, Base, NEW l \in Launches, Record(l)
  PROVE  OtherTypes'
<1>1. OtherTypes /\ TypeOK
  BY DEF Base, TypeOK, OtherTypes
<1>2. \A x \in Xids : Written(l, x, "launcher") \in Entry
  BY <1>1, WrittenIs
<1>3. registry' \in [Xids -> Entry]
  BY <1>1, <1>2 DEF OtherTypes, Record
<1> QED BY <1>1, <1>3 DEF OtherTypes, Record

\* Extract keeps the types of all but the launches.
LEMMA ExtractTypes ==
  ASSUME LaunchConstantsOK, Base, NEW l \in Launches, Extract(l)
  PROVE  OtherTypes'
<1>1. OtherTypes /\ TypeOK
  BY DEF Base, TypeOK, OtherTypes
<1>2. \A x \in Xids : Written(l, x, "wrapper") \in Entry
  BY <1>1, WrittenIs
<1>3. NoEntry \in Entry
  BY DEF Entry, NoEntry
<1> DEFINE x == job[l].xid
           e == Written(l, x, "wrapper")
<1>4. \/ registry' = registry
      \/ registry' = [registry EXCEPT ![x] = e]
      \/ registry' = [registry EXCEPT ![x] = NoEntry]
  BY DEF Extract
<1>5. registry \in [Xids -> Entry] /\ (x \in Xids => e \in Entry)
  BY <1>1, <1>2 DEF OtherTypes
<1> HIDE DEF x, e
<1>6. registry' \in [Xids -> Entry]
  BY <1>3, <1>4, <1>5
<1> QED BY <1>1, <1>6 DEF OtherTypes, Extract

\* So do lost writes.
LEMMA RotTypes ==
  ASSUME LaunchConstantsOK, Base, NEW c \in Codes, Rot(c)
  PROVE  OtherTypes'
<1>1. OtherTypes /\ TypeOK
  BY DEF Base, TypeOK, OtherTypes
<1>2. dirs[Final(c)] \in Directory
  BY <1>1, NamesApart DEF OtherTypes, Rot, Exists
<1>3. Rotten(dirs[Final(c)]) \in Directory
  BY <1>2 DEF Rotten, Directory
<1>4. dirs' \in [Names -> Directory \cup {Absent}]
  BY <1>1, <1>3 DEF OtherTypes, Rot
<1> QED BY <1>1, <1>4, DirsTypes DEF Rot

\* The plan of the collector keeps the types.
LEMMA GcPlanTypes ==
  ASSUME LaunchConstantsOK, Base, GcPlan
  PROVE  OtherTypes'
<1>1. OtherTypes /\ TypeOK
  BY DEF Base, TypeOK, OtherTypes
<1>2. PICK old \in SUBSET Old : gc' = [pc |-> "planned", plan |-> old \ Referenced]
  BY DEF GcPlan
<1>3. old \ Referenced \in SUBSET Names
  BY <1>2 DEF Old
<1>4. rounds' \in 0..MaxRounds
  BY <1>1, LaunchConstantsOK DEF OtherTypes, GcPlan, LaunchConstantsOK
<1>5. gc' \in [pc : {"idle", "planned", "removing"}, plan : SUBSET Names]
  BY <1>2, <1>3
<1> QED BY <1>1, <1>4, <1>5 DEF OtherTypes, GcPlan

\* So does its second reading of the references.
LEMMA GcReprobeTypes ==
  ASSUME LaunchConstantsOK, Base, GcReprobe
  PROVE  OtherTypes'
<1>1. OtherTypes /\ TypeOK
  BY DEF Base, TypeOK, OtherTypes
<1>2. gc.plan \ Referenced \in SUBSET Names
  BY <1>1 DEF OtherTypes
<1>3. gc' \in [pc : {"idle", "planned", "removing"}, plan : SUBSET Names]
  BY <1>2 DEF GcReprobe
<1> QED BY <1>1, <1>3 DEF OtherTypes, GcReprobe

\* What a file removed leaves of a directory.
LEMMA TearIs ==
  ASSUME Base, NEW n \in Names, GcTear(n)
  PROVE  /\ Taking(n) /\ Exists(n) /\ dirs[n] \in Directory
         /\ \E d \in Directory : /\ dirs' = [dirs EXCEPT ![n] = d]
                                 /\ d.code = dirs[n].code /\ d.by = dirs[n].by
                                 /\ d.whole = dirs[n].whole /\ (d.checks => dirs[n].checks)
<1>1. dirs \in [Names -> Directory \cup {Absent}] /\ Taking(n) /\ Exists(n)
  BY DEF Base, TypeOK, GcTear
<1>2. dirs[n] \in Directory
  BY <1>1 DEF Exists
<1>3. PICK ok \in BOOLEAN : dirs' = [dirs EXCEPT ![n].torn = TRUE, ![n].checks = @ /\ ok]
  BY DEF GcTear
<1> DEFINE b == dirs[n].checks /\ ok
           d == [dirs[n] EXCEPT !.torn = TRUE, !.checks = b]
<1>4. b \in BOOLEAN /\ (b => dirs[n].checks)
  BY <1>2 DEF Directory
<1>5. dirs' = [dirs EXCEPT ![n] = d]
  BY <1>1, <1>2, <1>3 DEF Directory
<1> HIDE DEF b
<1>6. d \in Directory
  BY <1>2, <1>4, Zenon DEF Directory
<1>7. d.code = dirs[n].code /\ d.by = dirs[n].by /\ d.whole = dirs[n].whole /\ d.checks = b
  BY <1>2 DEF Directory
<1> HIDE DEF d
<1> QED BY <1>1, <1>2, <1>4, <1>5, <1>6, <1>7

\* So does a file removed.
LEMMA GcTearTypes ==
  ASSUME LaunchConstantsOK, Base, NEW n \in Names, GcTear(n)
  PROVE  OtherTypes'
<1>1. OtherTypes /\ TypeOK
  BY DEF Base, TypeOK, OtherTypes
<1>2. PICK d \in Directory : dirs' = [dirs EXCEPT ![n] = d]
  BY TearIs
<1>3. dirs' \in [Names -> Directory \cup {Absent}]
  BY <1>1, <1>2 DEF OtherTypes
<1> QED BY <1>1, <1>3, DirsTypes DEF GcTear

\* So does a directory removed.
LEMMA GcRemoveTypes ==
  ASSUME LaunchConstantsOK, Base, NEW n \in Names, GcRemove(n)
  PROVE  OtherTypes'
<1>1. OtherTypes /\ TypeOK
  BY DEF Base, TypeOK, OtherTypes
<1>2. dirs' \in [Names -> Directory \cup {Absent}]
  BY <1>1 DEF OtherTypes, GcRemove
<1>3. gc' = [gc EXCEPT !.plan = gc.plan \ {n}]
  BY DEF GcRemove
<1>4. gc.plan \ {n} \in SUBSET Names
  BY <1>1 DEF OtherTypes
<1>5. gc' \in [pc : {"idle", "planned", "removing"}, plan : SUBSET Names]
  BY <1>1, <1>3, <1>4 DEF OtherTypes
<1> QED BY <1>1, <1>2, <1>5 DEF OtherTypes, GcRemove

\* So does the end of a pass.
LEMMA GcEndTypes ==
  ASSUME LaunchConstantsOK, Base, GcEnd
  PROVE  OtherTypes'
<1>1. OtherTypes /\ TypeOK
  BY DEF Base, TypeOK, OtherTypes
<1>2. gc' \in [pc : {"idle", "planned", "removing"}, plan : SUBSET Names]
  BY DEF GcEnd, Idle
<1> QED BY <1>1, <1>2 DEF OtherTypes, GcEnd

\* The steps that change their launch only keep the types.
LEMMA QuietStepTypes ==
  ASSUME LaunchConstantsOK, Base, NEW l \in Launches,
         \/ StageLock(l) \/ Hash(l) \/ Look(l) \/ StageResume(l)
         \/ BuildLock(l) \/ Group(l) \/ Prepare(l) \/ PrintLine(l) \/ Die(l) \/ Kill(l) \/ Edit(l)
  PROVE  OtherTypes'
<1>1. OtherTypes /\ TypeOK
  BY DEF Base, TypeOK, OtherTypes
<1>2. Quiet
  BY DEF Quiet, StageLock, Hash, Look, StageResume, BuildLock, Group, Prepare, PrintLine, Die,
     Kill, Edit
<1> QED BY <1>1, <1>2, QuietTypes

\* No step takes anything from XManager.
LEMMA Grows ==
  ASSUME LaunchConstantsOK, Base, [Next]_vars
  PROVE  XmGrows
<1>1. xm \in [Xids -> Experiment] /\ job \in [Launches -> Job] /\ PlaceTells
  BY DEF Base, TypeOK
<1>2. CASE xm' = xm
  BY <1>2 DEF XmGrows
<1>3. ASSUME NEW l \in Launches, Create(l)
      PROVE  XmGrows
  <2>1. ASSUME NEW x \in Xids, Unused(x), xm' = [xm EXCEPT ![x].by = l, ![x].want = job[l].sha]
        PROVE  XmGrows
    <3>1. xm[x].by = NoLaunch /\ xm[x].units = {}
      BY <2>1 DEF Unused, Nothing
    <3>2. \A y \in Xids : y # x => xm'[y] = xm[y]
      BY <2>1, <1>1
    <3> QED BY <3>1, <3>2 DEF XmGrows
  <2> QED BY <1>2, <1>3, <2>1 DEF Create
<1>4. ASSUME NEW l \in Launches, Add(l)
      PROVE  XmGrows
  <2>1. xm' = [xm EXCEPT ![job[l].xid].units = @ \cup {job[l].built}]
    BY <1>4 DEF Add
  <2>2. \A y \in Xids : /\ xm'[y].by = xm[y].by /\ xm'[y].want = xm[y].want
                        /\ xm[y].units \subseteq xm'[y].units
    BY <1>1, <2>1 DEF Experiment
  <2> QED BY <2>2 DEF XmGrows
<1>5. xm' = xm \/ \E l \in Launches : Create(l) \/ Add(l)
  BY ZenonT(40) DEF Next, vars, Queue, Stage, Launch, Collect, Happens, Start, StageLock, Hash, Look,
     StageTemp,
         Publish, StageFallback, StageFresh, StageResume, BuildLock, Group, Prepare, Package,
         Record, PrintLine, Extract, GcPlan, GcReprobe, GcTear, GcRemove, GcEnd, Die, Kill, Edit, Rot
<1> QED BY <1>2, <1>3, <1>4, <1>5

\* Every step of a launch is one of its walk.
LEMMA StepOfLaunch ==
  ASSUME LaunchConstantsOK, Base, NEW l \in Launches, Queue(l) \/ Die(l) \/ Kill(l) \/ Edit(l)
  PROVE  /\ job' \in [Launches -> Job] /\ Others(l) /\ Tells(l)' /\ Walks(l)
         /\ OtherTypes'
<1>1. CASE Start(l)
  BY <1>1, StartTells, StartTypes
<1>2. CASE StageLock(l)
  BY <1>2, StageLockTells, QuietStepTypes
<1>3. CASE Hash(l)
  BY <1>3, HashTells, QuietStepTypes
<1>4. CASE Look(l)
  BY <1>4, LookTells, QuietStepTypes
<1>5. CASE StageTemp(l)
  BY <1>5, StageTempTells, StageTempTypes
<1>6. CASE Publish(l)
  BY <1>6, PublishTells, PublishTypes
<1>7. CASE StageFallback(l)
  BY <1>7, StageFallbackTells, StageFallbackTypes
<1>8. CASE StageFresh(l)
  BY <1>8, StageFreshTells, StageFreshTypes
<1>9. CASE StageResume(l)
  BY <1>9, StageResumeTells, QuietStepTypes
<1>10. CASE BuildLock(l)
  BY <1>10, BuildLockTells, QuietStepTypes
<1>11. CASE Group(l)
  BY <1>11, GroupTells, QuietStepTypes
<1>12. CASE Create(l)
  BY <1>12, CreateTells, CreateTypes
<1>13. CASE Prepare(l)
  BY <1>13, PrepareTells, QuietStepTypes
<1>14. CASE Package(l)
  BY <1>14, PackageTells, PackageTypes
<1>15. CASE Add(l)
  BY <1>15, AddTells, AddTypes
<1>16. CASE Record(l)
  BY <1>16, RecordTells, RecordTypes
<1>17. CASE PrintLine(l)
  BY <1>17, PrintLineTells, QuietStepTypes
<1>18. CASE Extract(l)
  BY <1>18, ExtractTells, ExtractTypes
<1>19. CASE Die(l)
  BY <1>19, DieTells, QuietStepTypes
<1>20. CASE Kill(l)
  BY <1>20, KillTells, QuietStepTypes
<1>21. CASE Edit(l)
  BY <1>21, EditTells, QuietStepTypes
<1> QED BY <1>1, <1>2, <1>3, <1>4, <1>5, <1>6, <1>7, <1>8, <1>9, <1>10, <1>11, <1>12, <1>13,
           <1>14, <1>15, <1>16, <1>17, <1>18, <1>19, <1>20, <1>21 DEF Queue, Stage, Launch

\* Every step keeps the types and what the places tell.
LEMMA BaseStep ==
  ASSUME LaunchConstantsOK, Base, [Next]_vars
  PROVE  Base'
<1> USE DEF Base
<1>1. XmGrows
  BY Grows
<1>2. ASSUME NEW l \in Launches, Queue(l) \/ Die(l) \/ Kill(l) \/ Edit(l)
      PROVE  Base'
  <2>1. job' \in [Launches -> Job] /\ Others(l) /\ Tells(l)' /\ OtherTypes'
    BY <1>2, StepOfLaunch
  <2>2. \A m \in Launches : m # l => Tells(m)'
    BY <1>1, <2>1, OthersTell DEF Others, PlaceTells
  <2>3. TypeOK'
    BY <2>1 DEF TypeOK, OtherTypes
  <2> QED BY <2>1, <2>2, <2>3 DEF PlaceTells
<1>3. ASSUME job' = job, OtherTypes'
      PROVE  Base'
  <2>1. \A m \in Launches : Tells(m)'
    BY <1>1, <1>3, OthersTell DEF PlaceTells
  <2> QED BY <1>3, <2>1 DEF PlaceTells, TypeOK, OtherTypes
<1>4. CASE \E c \in Codes : Rot(c)
  BY <1>3, <1>4, RotTypes DEF Rot
<1>5. CASE Collect
  <2>1. OtherTypes'
    BY <1>5, GcPlanTypes, GcReprobeTypes, GcTearTypes, GcRemoveTypes, GcEndTypes DEF Collect
  <2>2. job' = job
    BY <1>5 DEF Collect, GcPlan, GcReprobe, GcTear, GcRemove, GcEnd
  <2> QED BY <1>3, <2>1, <2>2
<1>6. CASE UNCHANGED vars
  <2>1. Quiet /\ job' = job /\ OtherTypes
    BY <1>6 DEF Quiet, vars, TypeOK, OtherTypes
  <2> QED BY <1>3, <2>1, QuietTypes
<1> QED BY <1>2, <1>4, <1>5, <1>6 DEF Next, Happens

\* They are so at first.
LEMMA BaseInit ==
  ASSUME LaunchConstantsOK, Init
  PROVE  Base
<1>1. \A m \in Modes, c \in Codes, g \in 1..Groups : Shell("start", m, c, g) \in Job
  <2> SUFFICES ASSUME NEW m \in Modes, NEW c \in Codes, NEW g \in 1..Groups
               PROVE  Shell("start", m, c, g) \in Job
    OBVIOUS
  <2>1. "start" \in PCs /\ 0 \in 0..MaxTries /\ Groups \in Nat
    BY Places
  <2>2. g \in 0..Groups
    BY <2>1
  <2> QED BY <2>1, <2>2, Zenon DEF Shell, Job, Contents
<1>2. job \in [Launches -> Job]
  BY <1>1 DEF Init
<1>3. \A l \in Launches : /\ job[l].pc = "start" /\ job[l].mode \in Modes /\ job[l].source \in Codes
                          /\ job[l].resumes = NoXid /\ job[l].xid = NoXid /\ ~job[l].said
  BY DEF Init, Shell
<1>4. PlaceTells
  <2>1. "none" \notin Modes
    BY DEF LaunchConstantsOK
  <2> QED BY <1>3, <2>1 DEF PlaceTells, Tells, Preparing, Attached, Staging, Ended, Building,
             Launching
<1>5. OtherTypes
  <2>1. Nothing \in Experiment /\ NoEntry \in Entry
    BY DEF Nothing, Experiment, NoEntry, Entry
  <2>2. 0 \in 0..MaxRounds
    BY DEF LaunchConstantsOK
  <2> QED BY <2>1, <2>2 DEF Init, OtherTypes, Idle, Contents
<1> QED BY <1>2, <1>4, <1>5 DEF Base, TypeOK, OtherTypes

\* Every variable of the staging parent, the launches, XManager, the registry, the package cache
\* and the collector keeps its type.
THEOREM TypeCorrect == Spec => []TypeOK
<1>1. Init => Base
  BY LaunchConstantsOK, BaseInit
<1>2. Base /\ [Next]_vars => Base'
  BY LaunchConstantsOK, BaseStep
<1>3. Base => TypeOK
  BY DEF Base
<1> QED BY <1>1, <1>2, <1>3, PTL DEF Spec

-----------------------------------------------------------------------------
(* Footprints: who changes what.                                           *)

\* A step of launch l, or one that befalls it.
Acts(l) == Queue(l) \/ Die(l) \/ Kill(l) \/ Edit(l)

\* A launch moves, or the collector or the disk does.
LEMMA Who ==
  ASSUME [Next]_vars
  PROVE  \/ \E l \in Launches : Acts(l) /\ gc' = gc
         \/ job' = job /\ xm' = xm /\ registry' = registry /\ packages' = packages
<1>1. ASSUME NEW l \in Launches, Acts(l)
      PROVE  gc' = gc
  BY <1>1 DEF Acts, Queue, Stage, Launch, Start, StageLock, Hash, Look, StageTemp, Publish,
     StageFallback,
         StageFresh, StageResume, BuildLock, Group, Create, Prepare, Package, Add, Record, PrintLine,
         Extract, Die, Kill, Edit
<1>2. ASSUME Collect \/ (\E c \in Codes : Rot(c)) \/ UNCHANGED vars
      PROVE  job' = job /\ xm' = xm /\ registry' = registry /\ packages' = packages
  BY <1>2 DEF Collect, GcPlan, GcReprobe, GcTear, GcRemove, GcEnd, Rot, vars
<1> QED BY <1>1, <1>2 DEF Next, Happens, Acts

\* A launch does not move, or walks.
LEMMA Walking ==
  ASSUME LaunchConstantsOK, Base, [Next]_vars, NEW l \in Launches
  PROVE  job'[l] = job[l] \/ Walks(l)
BY Who, StepOfLaunch DEF Acts, Others

\* A launch that ended stays so.
LEMMA EndIsEnd ==
  ASSUME LaunchConstantsOK, Base, [Next]_vars, NEW l \in Launches, job[l].pc \in Ended
  PROVE  job'[l].pc \in Ended
BY Walking DEF Walks

\* Launch l writes a private directory of its own, before it builds.
Writes(l, n) ==
  /\ n \in {Temp(l), Fallback(l), Run(l)} /\ job[l].pc \in Preparing
  /\ dirs'[n] # Absent => dirs'[n].by = l
  /\ n = Temp(l) => job'[l].pc # job[l].pc

\* Launch l renames its private directory to a name that is free.
Published(l, n) ==
  /\ n = Final(job[l].sha) /\ job[l].pc = "rename" /\ job[l].sha \in Codes
  /\ ~Exists(n) /\ dirs'[n] = dirs[Temp(l)]

\* The collector removes a directory of its plan, or a file of it.
Torn(n) ==
  /\ Taking(n)
  /\ \/ dirs'[n] = Absent /\ n \notin gc'.plan
     \/ /\ Exists(n) /\ dirs'[n] \in Directory
        /\ dirs'[n].code = dirs[n].code /\ dirs'[n].by = dirs[n].by
        /\ dirs'[n].whole = dirs[n].whole /\ (dirs'[n].checks => dirs[n].checks)

\* Writes to a published directory turn out to be lost.
Rots(n) == \E c \in Codes : n = Final(c) /\ Exists(n) /\ dirs'[n] = Rotten(dirs[n])

\* Nothing else changes a directory.
LEMMA DirSteps ==
  ASSUME LaunchConstantsOK, Base, [Next]_vars, NEW n \in Names
  PROVE  \/ dirs'[n] = dirs[n]
         \/ \E l \in Launches : Writes(l, n) \/ Published(l, n)
         \/ Torn(n) \/ Rots(n)
<1> USE DEF Base
<1>1. /\ dirs \in [Names -> Directory \cup {Absent}] /\ job \in [Launches -> Job]
      /\ \A l \in Launches : Tells(l)
  BY DEF TypeOK, PlaceTells
<1>2. ASSUME NEW l \in Launches, Start(l)
      PROVE  dirs'[n] = dirs[n] \/ Writes(l, n)
  <2>1. job[l].pc \in Preparing /\ (dirs' = dirs \/ dirs' = [dirs EXCEPT ![Run(l)] = Empty(l)])
    BY <1>2 DEF Start, At, Preparing
  <2> QED BY <1>1, <2>1, EmptyIs, NamesApart DEF Writes
<1>3. ASSUME NEW l \in Launches, StageTemp(l)
      PROVE  dirs'[n] = dirs[n] \/ Writes(l, n)
  <2>1. job[l].pc \in Preparing /\ job[l].sha \in Codes
    BY <1>1, <1>3 DEF StageTemp, At, Preparing, Tells, Staging
  <2>2. \/ dirs' = dirs
        \/ \E d \in Directory : /\ d.by = l /\ dirs' = [dirs EXCEPT ![Temp(l)] = d]
                                /\ job'[l].pc = "rename"
    BY <1>1, <1>3, <2>1, StageTempIs DEF Moves
  <2>3. job[l].pc = "temp"
    BY <1>3 DEF StageTemp, At
  <2> QED BY <1>1, <2>1, <2>2, <2>3, NamesApart DEF Writes
<1>4. ASSUME NEW l \in Launches, StageFallback(l)
      PROVE  dirs'[n] = dirs[n] \/ Writes(l, n)
  <2>1. job[l].pc \in Preparing /\ job[l].sha \in Codes
    BY <1>1, <1>4 DEF StageFallback, At, Preparing, Tells, Staging
  <2>2. dirs' = dirs \/ \E d \in Directory : d.by = l /\ dirs' = [dirs EXCEPT ![Fallback(l)] = d]
    BY <1>1, <1>4, <2>1, StageFallbackIs
  <2> QED BY <1>1, <2>1, <2>2, NamesApart DEF Writes
<1>5. ASSUME NEW l \in Launches, StageFresh(l)
      PROVE  dirs'[n] = dirs[n] \/ Writes(l, n)
  <2>1. job[l].pc \in Preparing /\ Run(l) \in Names
    BY <1>5, NamesApart DEF StageFresh, At, Preparing
  <2>2. \/ dirs' = dirs \/ dirs' = [dirs EXCEPT ![Run(l)] = Empty(l)]
        \/ \E d \in Copies(l, Run(l), NoCode) : dirs' = [dirs EXCEPT ![Run(l)] = d]
    BY <1>5 DEF StageFresh
  <2>3. \A d \in Copies(l, Run(l), NoCode) : d.by = l
    BY <1>1, <2>1, CopiesAre
  <2> QED BY <1>1, <2>1, <2>2, <2>3, EmptyIs, NamesApart DEF Writes
<1>6. ASSUME NEW l \in Launches, Publish(l)
      PROVE  dirs'[n] = dirs[n] \/ Writes(l, n) \/ Published(l, n)
  <2> DEFINE c == job[l].sha
             gone == [dirs EXCEPT ![Temp(l)] = Absent]
  <2>1. job[l].pc = "rename" /\ job[l].pc \in Preparing /\ c \in Codes
    BY <1>1, <1>6 DEF Publish, At, Preparing, Tells, Staging
  <2>2. /\ Temp(l) \in Names /\ Final(c) \in Names /\ Final(c) # Temp(l)
    BY <2>1, NamesApart
  <2>3. \/ dirs' = gone
        \/ ~Exists(Final(c)) /\ dirs' = [gone EXCEPT ![Final(c)] = dirs[Temp(l)]]
    BY <1>6 DEF Publish
  <2>4. n # Temp(l) => gone[n] = dirs[n]
    BY <1>1
  <2>5. gone[Temp(l)] = Absent /\ gone \in [Names -> Directory \cup {Absent}]
    BY <1>1, <2>2
  <2>6. job'[l].pc # "rename"
    <3>1. Staged(l, Final(c), c) \/ Reuse(l) \/ Again(l, "temp")
      BY <1>6 DEF Publish
    <3>2. "temp" \in PCs /\ c \in Codes \cup {NoCode}
      BY <2>1, Places DEF Staging
    <3> HIDE DEF c
    <3>3. Staged(l, Final(c), c) => Moves(l, "buildlock")
      BY <1>1, <2>2, <3>2, StagedIs
    <3>4. Reuse(l) => Moves(l, "buildlock") \/ Moves(l, "fallback")
      BY <1>1, <2>1, ReuseIs DEF StagedAt, c
    <3>5. Again(l, "temp") => Moves(l, "temp") \/ Moves(l, "refused")
      BY <1>1, <3>2, AgainIs DEF Returned
    <3> QED BY <3>1, <3>3, <3>4, <3>5 DEF Moves
  <2> HIDE DEF gone, c
  <2>7. CASE n = Temp(l)
    BY <2>1, <2>2, <2>3, <2>5, <2>7, <2>6 DEF Writes
  <2>8. CASE n = Final(c)
    BY <2>1, <2>2, <2>3, <2>4, <2>5, <2>8 DEF Published, c
  <2>9. CASE n # Temp(l) /\ n # Final(c)
    BY <2>3, <2>4, <2>5, <2>9
  <2> QED BY <2>7, <2>8, <2>9
<1>7. ASSUME NEW c \in Codes, Rot(c)
      PROVE  dirs'[n] = dirs[n] \/ Rots(n)
  BY <1>1, <1>7, NamesApart DEF Rot, Rots
<1>8. ASSUME NEW m \in Names, GcTear(m)
      PROVE  dirs'[n] = dirs[n] \/ Torn(n)
  <2>1. /\ Taking(m) /\ Exists(m)
        /\ \E d \in Directory : /\ dirs' = [dirs EXCEPT ![m] = d]
                                /\ d.code = dirs[m].code /\ d.by = dirs[m].by
                                /\ d.whole = dirs[m].whole /\ (d.checks => dirs[m].checks)
    BY <1>8, TearIs
  <2>2. CASE n = m
    BY <1>1, <2>1, <2>2 DEF Torn
  <2>3. CASE n # m
    BY <1>1, <2>1, <2>3
  <2> QED BY <2>2, <2>3
<1>9. ASSUME NEW m \in Names, GcRemove(m)
      PROVE  dirs'[n] = dirs[n] \/ Torn(n)
  <2>1. Taking(m) /\ dirs' = [dirs EXCEPT ![m] = Absent] /\ gc' = [gc EXCEPT !.plan = @ \ {m}]
    BY <1>9 DEF GcRemove
  <2>2. m \notin gc'.plan
    BY <2>1 DEF TypeOK
  <2> QED BY <1>1, <2>1, <2>2 DEF Torn
<1>10. \/ dirs' = dirs
       \/ \E l \in Launches : Start(l) \/ StageTemp(l) \/ StageFallback(l) \/ StageFresh(l)
                           \/ Publish(l)
       \/ \E c \in Codes : Rot(c)
       \/ \E m \in Names : GcTear(m) \/ GcRemove(m)
  BY ZenonT(40) DEF Next, vars, Queue, Stage, Launch, Collect, Happens, StageLock, Hash, Look, StageResume,
         BuildLock, Group, Create, Prepare, Package, Add, Record, PrintLine, Extract,
         GcPlan, GcReprobe, GcEnd, Die, Kill, Edit
<1> QED BY <1>2, <1>3, <1>4, <1>5, <1>6, <1>7, <1>8, <1>9, <1>10

\* A plan grows only by directories that are old and that no entry refers to.
LEMMA PlanSteps ==
  ASSUME LaunchConstantsOK, Base, [Next]_vars
  PROVE  \/ gc'.plan \subseteq gc.plan
         \/ gc'.plan \subseteq Old /\ gc'.plan \cap Referenced = {}
            /\ dirs' = dirs /\ job' = job /\ registry' = registry
<1>1. CASE GcPlan
  BY <1>1 DEF GcPlan
<1>2. CASE GcReprobe \/ GcEnd \/ \E m \in Names : GcRemove(m)
  <2>1. gc \in [pc : {"idle", "planned", "removing"}, plan : SUBSET Names]
    BY DEF Base, TypeOK
  <2> QED BY <1>2, <2>1 DEF GcReprobe, GcEnd, GcRemove, Idle
<1>3. CASE gc' = gc
  BY <1>3
<1>4. GcPlan \/ GcReprobe \/ GcEnd \/ (\E m \in Names : GcRemove(m)) \/ gc' = gc
  <2>1. ASSUME NEW l \in Launches, Acts(l)
        PROVE  gc' = gc
    BY <2>1 DEF Acts, Queue, Stage, Launch, Start, StageLock, Hash, Look, StageTemp, Publish,
           StageFallback, StageFresh, StageResume, BuildLock, Group, Create, Prepare, Package,
           Add, Record, PrintLine, Extract, Die, Kill, Edit
  <2> QED BY <2>1 DEF Next, Happens, Acts, Collect, GcTear, Rot, vars
<1> QED BY <1>1, <1>2, <1>3, <1>4

-----------------------------------------------------------------------------
(* No entry without a work unit.                                           *)

\* An entry is written where the experiment has a work unit.
LEMMA HasWorkStep ==
  ASSUME LaunchConstantsOK, Base, RegisteredHasWork, [Next]_vars
  PROVE  RegisteredHasWork'
<1>1. XmGrows
  BY Grows
<1>2. registry \in [Xids -> Entry] /\ \A l \in Launches : Tells(l)
  BY DEF Base, TypeOK, PlaceTells
<1>3. ASSUME NEW x \in Xids, registry'[x] # NoEntry
      PROVE  xm[x].units # {}
  <2>1. CASE registry'[x] = registry[x]
    BY <1>3, <2>1 DEF RegisteredHasWork
  <2>2. ASSUME NEW l \in Launches, Record(l), registry'[x] # registry[x]
        PROVE  xm[x].units # {}
    <3>1. job[l].xid = x /\ job[l].pc = "record"
      BY <1>2, <2>2 DEF Record, At
    <3> QED BY <1>2, <3>1 DEF Tells
  <2>3. ASSUME NEW l \in Launches, Extract(l), registry'[x] # registry[x]
        PROVE  xm[x].units # {}
    <3>1. job[l].said /\ job[l].xid = x
      BY <1>2, <1>3, <2>3 DEF Extract
    <3> QED BY <1>2, <3>1 DEF Tells
  <2>4. registry' = registry \/ \E l \in Launches : Record(l) \/ Extract(l)
    BY DEF Next, vars, Queue, Stage, Launch, Collect, Happens, Start, StageLock, Hash, Look,
           StageTemp, Publish, StageFallback, StageFresh, StageResume, BuildLock, Group,
           Create, Prepare, Package, Add, PrintLine, GcPlan, GcReprobe, GcTear,
           GcRemove, GcEnd, Die, Kill, Edit, Rot
  <2> QED BY <2>1, <2>2, <2>3, <2>4
<1> QED BY <1>1, <1>3 DEF RegisteredHasWork, XmGrows

\* "An entry exists only if a work unit was actually added", wherever a launcher dies, a launch is
\* killed or the registry is filled twice (xm_launcher.py, before update_mapping).
THEOREM WorkBeforeEntry == Spec => []RegisteredHasWork
<1>1. Init => Base /\ RegisteredHasWork
  BY LaunchConstantsOK, BaseInit DEF Init, RegisteredHasWork
<1>2. Base /\ RegisteredHasWork /\ [Next]_vars => Base' /\ RegisteredHasWork'
  BY LaunchConstantsOK, BaseStep, HasWorkStep
<1> QED BY <1>1, <1>2, PTL DEF Spec

-----------------------------------------------------------------------------
(* A stage in use stays.                                                   *)

\* A launch that resumes nothing builds from a published directory or one of its own.
OwnStage ==
  \A l \in Launches : job[l].pc \in Building /\ job[l].resumes = NoXid =>
    job[l].dir \in {Fallback(l), Run(l)} \/ \E c \in Codes : job[l].dir = Final(c)

\* A private directory was made by the launch whose name it has.
Makers ==
  \A l \in Launches : \A n \in {Temp(l), Fallback(l), Run(l)} : Exists(n) => dirs[n].by = l

\* What the collector plans to remove is there, and the launch that made it ended.
PlannedIsLeft ==
  \A n \in gc.plan : n \in Names /\ Exists(n) /\ job[dirs[n].by].pc \in Ended

\* Who may touch a stage: the strengthening of StageInUseStays that every step keeps.
Stages == Base /\ OwnStage /\ Makers /\ PlannedIsLeft

\* It holds at first.
LEMMA StagesInit ==
  ASSUME LaunchConstantsOK, Init
  PROVE  Stages
<1>1. \A l \in Launches : job[l].pc = "start"
  BY DEF Init, Shell
<1>2. OwnStage
  BY <1>1 DEF OwnStage, Building, Launching
<1>3. \A n \in Names : ~Exists(n)
  BY DEF Init, Exists
<1>4. Makers
  BY <1>3, NamesApart DEF Makers
<1>5. PlannedIsLeft
  BY DEF Init, Idle, PlannedIsLeft
<1> QED BY <1>2, <1>4, <1>5, BaseInit DEF Stages

\* A directory of the plan goes on being there, with its maker, as long as it is planned.
LEMMA PlannedStays ==
  ASSUME LaunchConstantsOK, Stages, [Next]_vars, NEW n \in gc.plan, n \in gc'.plan
  PROVE  /\ dirs[n] \in Directory /\ dirs'[n] \in Directory
         /\ dirs'[n].by = dirs[n].by
<1> USE DEF Stages
<1>1. n \in Names /\ Exists(n) /\ job[dirs[n].by].pc \in Ended
  BY DEF PlannedIsLeft
<1>2. dirs[n] \in Directory
  BY <1>1 DEF Base, TypeOK, Exists
<1>3. \A m \in Launches : ~Published(m, n)
  BY <1>1 DEF Published
<1>4. \A m \in Launches : ~Writes(m, n)
  <2> SUFFICES ASSUME NEW m \in Launches, Writes(m, n) PROVE FALSE
    OBVIOUS
  <2>1. dirs[n].by = m
    BY <1>1 DEF Writes, Makers
  <2> QED BY <1>1, <2>1 DEF Writes, Ended, Preparing, Staging
<1>5. Torn(n) => dirs'[n] \in Directory /\ dirs'[n].by = dirs[n].by
  BY DEF Torn
<1>6. Rots(n) => dirs'[n] \in Directory /\ dirs'[n].by = dirs[n].by
  BY <1>2 DEF Rots, Rotten, Directory
<1> QED BY <1>1, <1>2, <1>3, <1>4, <1>5, <1>6, DirSteps

\* Every step keeps it.
LEMMA StagesStep ==
  ASSUME LaunchConstantsOK, Stages, [Next]_vars
  PROVE  Stages'
<1> USE DEF Stages
<1>1. Base'
  BY BaseStep
<1>2. OwnStage'
  <2> SUFFICES ASSUME NEW l \in Launches, job'[l].pc \in Building, job'[l].resumes = NoXid
               PROVE  \/ job'[l].dir \in {Fallback(l), Run(l)}
                      \/ \E c \in Codes : job'[l].dir = Final(c)
    BY DEF OwnStage
  <2>1. CASE job'[l] = job[l]
    BY <2>1 DEF OwnStage
  <2>2. CASE Walks(l)
    <3>1. job'[l].pc \notin Ended \cup Preparing
      BY DEF Ended, Preparing, Staging, Building, Launching
    <3>2. CASE job'[l].resumes = job[l].resumes /\ Home(l)
      BY <3>2, Places DEF Home
    <3>3. CASE /\ job[l].pc \in Building /\ job'[l].dir = job[l].dir
               /\ job'[l].resumes = job[l].resumes
      BY <3>3 DEF OwnStage
    <3> QED BY <2>2, <3>1, <3>2, <3>3 DEF Walks
  <2> QED BY <2>1, <2>2, Walking
<1>3. Makers'
  <2> SUFFICES ASSUME NEW l \in Launches, NEW n \in {Temp(l), Fallback(l), Run(l)},
                      dirs'[n] # Absent
               PROVE  dirs'[n].by = l
    BY DEF Makers, Exists
  <2>1. n \in Names /\ \A c \in Codes : n # Final(c)
    BY NamesApart
  <2>2. CASE dirs'[n] = dirs[n]
    BY <2>2 DEF Makers, Exists
  <2>3. ASSUME NEW m \in Launches, Writes(m, n)
        PROVE  dirs'[n].by = l
    <3>1. m = l
      BY <2>3, NamesApart DEF Writes
    <3> QED BY <2>3, <3>1 DEF Writes
  <2>4. CASE Torn(n)
    BY <2>4 DEF Torn, Makers
  <2>5. ~Rots(n) /\ \A m \in Launches : ~Published(m, n)
    BY <2>1 DEF Rots, Published
  <2> QED BY <2>1, <2>2, <2>3, <2>4, <2>5, DirSteps
<1>4. PlannedIsLeft'
  <2> SUFFICES ASSUME NEW n \in gc'.plan
               PROVE  n \in Names /\ dirs'[n] # Absent /\ job'[dirs'[n].by].pc \in Ended
    BY DEF PlannedIsLeft, Exists
  <2>1. CASE n \in gc.plan
    <3>1. /\ dirs[n] \in Directory /\ dirs'[n] \in Directory
          /\ dirs'[n].by = dirs[n].by
      BY <2>1, PlannedStays
    <3>2. n \in Names /\ job[dirs[n].by].pc \in Ended
      BY <2>1 DEF PlannedIsLeft
    <3>3. dirs[n].by \in Launches /\ dirs'[n] # Absent
      BY <3>1, AbsentIsNoDirectory DEF Directory
    <3> QED BY <3>1, <3>2, <3>3, EndIsEnd
  <2>2. CASE n \in Old /\ dirs' = dirs /\ job' = job
    BY <2>2 DEF Old, Exists
  <2>3. n \in gc.plan \/ (n \in Old /\ dirs' = dirs /\ job' = job)
    BY PlanSteps
  <2> QED BY <2>1, <2>2, <2>3
<1> QED BY <1>1, <1>2, <1>3, <1>4

\* One step as StageInUseStays wants it.
StageUntouched ==
  \A l \in Launches : job[l].pc \in Building /\ job[l].resumes = NoXid /\ Exists(job[l].dir)
    => LET n == job[l].dir IN
       Same(dirs[n], dirs'[n]) \/ (Taking(n) /\ job[dirs[n].by].pc \in Ended)

\* Every step is such a step.
LEMMA OwnStageUntouched ==
  ASSUME LaunchConstantsOK, Stages, [Next]_vars
  PROVE  StageUntouched
<1> USE DEF Stages
<1> SUFFICES ASSUME NEW l \in Launches, job[l].pc \in Building, job[l].resumes = NoXid,
                    Exists(job[l].dir), NEW n, n = job[l].dir
             PROVE  Same(dirs[n], dirs'[n]) \/ (Taking(n) /\ job[dirs[n].by].pc \in Ended)
  BY DEF StageUntouched
<1>1. n \in {Fallback(l), Run(l)} \/ \E c \in Codes : n = Final(c)
  BY DEF OwnStage
<1>2. n \in Names
  BY <1>1, NamesApart
<1>3. job[l].pc \notin Preparing \cup Ended
  BY DEF Preparing, Staging, Building, Launching, Ended
<1>4. Torn(n) => Taking(n) /\ job[dirs[n].by].pc \in Ended
  BY DEF Torn, Taking, PlannedIsLeft
<1>5. \A m \in Launches : ~Writes(m, n)
  BY <1>1, <1>3, NamesApart DEF Writes
<1>6. \A m \in Launches : ~Published(m, n)
  BY DEF Published
<1>7. dirs'[n] = dirs[n] \/ Rots(n) \/ Torn(n)
  BY <1>2, <1>5, <1>6, DirSteps
<1> QED BY <1>4, <1>7 DEF Same, Rots

\* Once a launch has staged its tree, no step of another launch changes the directory it builds from,
\* and the collector only one that it found published by a launch that ended, for any number of
\* launches and whatever goes wrong (ca_stage.py: "a build in flight can never have its files
\* overwritten").
THEOREM StageStays == Spec => StageInUseStays
<1>1. Init => Stages
  BY LaunchConstantsOK, StagesInit
<1>2. Stages /\ [Next]_vars => Stages'
  BY LaunchConstantsOK, StagesStep
<1>3. Stages /\ [Next]_vars => [StageUntouched]_vars
  BY LaunchConstantsOK, OwnStageUntouched
<1> QED BY <1>1, <1>2, <1>3, PTL DEF Spec, StageInUseStays, StageUntouched

-----------------------------------------------------------------------------
(* A published directory is whole.                                         *)

\* A launch that stages has hashed the tree it copies.
HashIsSource ==
  \A l \in Launches : job[l].pc \in Staging => job[l].sha = job[l].source

\* What is about to be published is what was hashed, in full.
CopyIsWhole ==
  \A l \in Launches : job[l].pc = "rename" =>
    dirs[Temp(l)].whole /\ dirs[Temp(l)].code = job[l].sha

\* A published directory is of the content it is named by; only where the checks fail is it not
\* whole.
FinalIsItsCode ==
  \A c \in Codes : Exists(Final(c)) =>
    dirs[Final(c)].code = c /\ (dirs[Final(c)].checks => dirs[Final(c)].whole)

\* The strengthening of PublishedIsWhole.
Whole == Stages /\ HashIsSource /\ CopyIsWhole /\ FinalIsItsCode

\* It holds at first.
LEMMA WholeInit ==
  ASSUME LaunchConstantsOK, Init
  PROVE  Whole
<1>1. \A l \in Launches : job[l].pc = "start"
  BY DEF Init, Shell
<1>2. HashIsSource /\ CopyIsWhole
  BY <1>1 DEF HashIsSource, CopyIsWhole, Staging
<1>3. FinalIsItsCode
  BY NamesApart DEF Init, Exists, FinalIsItsCode
<1> QED BY <1>2, <1>3, StagesInit DEF Whole

\* Every step keeps it, unless writes are lost where no check reads or a tree is edited while it is
\* staged.
LEMMA WholeStep ==
  ASSUME LaunchConstantsOK, Whole, [Next]_vars, "hole" \notin Faults, "edit" \notin Faults
  PROVE  Whole'
<1> USE DEF Whole, Stages
<1>1. /\ job \in [Launches -> Job] /\ dirs \in [Names -> Directory \cup {Absent}]
      /\ \A l \in Launches : Tells(l)
  BY DEF Base, TypeOK, PlaceTells
<1>2. Stages'
  BY StagesStep
<1>3. HashIsSource'
  <2> SUFFICES ASSUME NEW l \in Launches, job'[l].pc \in Staging
               PROVE  job'[l].sha = job'[l].source
    BY DEF HashIsSource
  <2>1. job'[l].pc \notin Ended \cup Building
    BY DEF Ended, Staging, Building, Launching
  <2> QED BY <2>1, Walking DEF Walks, HashIsSource, Building
<1>4. CopyIsWhole'
  <2> SUFFICES ASSUME NEW l \in Launches, job'[l].pc = "rename"
               PROVE  dirs'[Temp(l)].whole /\ dirs'[Temp(l)].code = job'[l].sha
    BY DEF CopyIsWhole
  <2>1. CASE job'[l] = job[l]
    <3>1. Temp(l) \in Names /\ \A c \in Codes : Temp(l) # Final(c)
      BY NamesApart
    <3>2. ~Torn(Temp(l))
      <4> SUFFICES ASSUME Temp(l) \in gc.plan PROVE FALSE
        BY DEF Torn, Taking
      <4>1. Exists(Temp(l)) /\ job[dirs[Temp(l)].by].pc \in Ended
        BY DEF PlannedIsLeft
      <4>2. dirs[Temp(l)].by = l
        BY <4>1 DEF Makers
      <4> QED BY <2>1, <4>1, <4>2 DEF Ended
    <3>3. ~Rots(Temp(l)) /\ \A m \in Launches : ~Published(m, Temp(l))
      BY <3>1 DEF Rots, Published
    <3>4. \A m \in Launches : ~Writes(m, Temp(l))
      BY <2>1, NamesApart DEF Writes
    <3>5. dirs'[Temp(l)] = dirs[Temp(l)]
      BY <3>1, <3>2, <3>3, <3>4, DirSteps
    <3> QED BY <2>1, <3>5 DEF CopyIsWhole
  <2>2. CASE StageTemp(l)
    <3>1. job[l].pc = "temp" /\ job[l].sha \in Codes /\ job[l].sha = job[l].source
      BY <1>1, <2>2 DEF StageTemp, At, Tells, Staging, HashIsSource
    <3>2. \/ Moves(l, "refused") \/ Moves(l, "temp")
          \/ \E d \in Directory : /\ d.code = job[l].source /\ d.whole
                                  /\ dirs' = [dirs EXCEPT ![Temp(l)] = d] /\ Keeps(l)
      BY <1>1, <2>2, <3>1, StageTempIs DEF Returned
    <3>3. PICK d \in Directory : /\ d.code = job[l].source /\ d.whole
                                 /\ dirs' = [dirs EXCEPT ![Temp(l)] = d] /\ Keeps(l)
      BY <3>2 DEF Moves
    <3> QED BY <1>1, <3>1, <3>3, NamesApart DEF Keeps
  <2>3. job'[l] = job[l] \/ StageTemp(l)
    <3>1. job'[l].pc \notin Ended \cup Building
      BY DEF Ended, Building, Launching
    <3> QED BY <3>1, Walking DEF Walks, Building
  <2> QED BY <2>1, <2>2, <2>3
<1>5. FinalIsItsCode'
  <2> SUFFICES ASSUME NEW c \in Codes, dirs'[Final(c)] # Absent
               PROVE  /\ dirs'[Final(c)].code = c
                      /\ dirs'[Final(c)].checks => dirs'[Final(c)].whole
    BY DEF FinalIsItsCode, Exists
  <2>1. Final(c) \in Names
    BY NamesApart
  <2>2. CASE dirs'[Final(c)] = dirs[Final(c)]
    BY <2>2 DEF FinalIsItsCode, Exists
  <2>3. ASSUME NEW l \in Launches, Published(l, Final(c))
        PROVE  dirs'[Final(c)].code = c /\ dirs'[Final(c)].whole
    BY <2>3, NamesApart DEF Published, CopyIsWhole
  <2>4. CASE Rots(Final(c))
    <3>1. dirs[Final(c)] \in Directory /\ dirs[Final(c)].code = c
      BY <1>1, <2>1, <2>4 DEF Rots, Exists, FinalIsItsCode
    <3>2. Rotten(dirs[Final(c)]).code = c /\ ~Rotten(dirs[Final(c)]).checks
      BY <3>1 DEF Rotten, Directory
    <3> QED BY <2>4, <3>2 DEF Rots
  <2>5. CASE Torn(Final(c))
    BY <2>5 DEF Torn, FinalIsItsCode
  <2>6. \A l \in Launches : ~Writes(l, Final(c))
    BY NamesApart DEF Writes
  <2> QED BY <2>1, <2>2, <2>3, <2>4, <2>5, <2>6, DirSteps
<1> QED BY <1>2, <1>3, <1>4, <1>5

\* A published directory that passes the checks of a reuse is of the code it is named by, and all of
\* it arrived there (ca_stage.py, I2, I4 and I5), unless writes are lost in files the checks do not
\* read or a tree is edited while it is staged: the checks see neither, nor what the collector took
\* since, which PublishedIsWhole leaves out.
THEOREM PublishedWhole ==
  ASSUME "hole" \notin Faults, "edit" \notin Faults
  PROVE  Spec => []PublishedIsWhole
<1>1. Init => Whole
  BY LaunchConstantsOK, WholeInit
<1>2. Whole /\ [Next]_vars => Whole'
  BY LaunchConstantsOK, WholeStep
<1>3. Whole => PublishedIsWhole
  BY DEF Whole, FinalIsItsCode, PublishedIsWhole, Verify
<1> QED BY <1>1, <1>2, <1>3, PTL DEF Spec

-----------------------------------------------------------------------------
(* The launches of one experiment.                                         *)

\* The experiments a launch that builds works on.
Uses(l) == IF job[l].pc \in Building THEN {job[l].resumes, job[l].xid} \ {NoXid} ELSE {}

\* A directory whose content no launch will write any more.
Fixed(n) == \/ \E c \in Codes : n = Final(c)
            \/ \E k \in Launches : n \in {Fallback(k), Run(k)} /\ job[k].pc \notin Preparing

\* The same after the step.
FixedThen(n) == \/ \E c \in Codes : n = Final(c)
                \/ \E k \in Launches : n \in {Fallback(k), Run(k)} /\ job'[k].pc \notin Preparing

\* Launches that work on one experiment build from one directory.
UsersAgree ==
  \A l, m \in Launches : \A x \in Uses(l) : x \in Uses(m) => job[l].dir = job[m].dir

\* They build what it was to run, and its entry, if it has one, names that directory.
UsersKnow ==
  \A l \in Launches : \A x \in Uses(l) :
    /\ xm[x].by # NoLaunch /\ job[l].sha = xm[x].want
    /\ registry[x] # NoEntry => registry[x].dir = job[l].dir

\* An entry without a writer is none, and only an experiment that was made has work units.
EntriesKnow ==
  \A x \in Xids : /\ registry[x].by = "none" => registry[x] = NoEntry
                  /\ xm[x].units # {} => xm[x].by # NoLaunch

\* Builds and entries refer to directories no launch will write.
HomesFixed ==
  /\ \A l \in Launches : job[l].pc \in Building => Fixed(job[l].dir)
  /\ \A x \in Xids : registry[x] # NoEntry => Fixed(registry[x].dir)

\* What the launches of one experiment and its entry share.
Shared == Stages /\ RegisteredHasWork /\ UsersAgree /\ UsersKnow /\ EntriesKnow /\ HomesFixed

\* The launcher of l registers experiment x.
Records(l, x) ==
  /\ job[l].pc = "record" /\ job[l].xid = x /\ registry[x] = NoEntry
  /\ registry'[x] = Written(l, x, "launcher") /\ Goto(l, "print")

\* The wrapper of l registers it.
Registers(l, x) ==
  /\ job[l].pc = "extract" /\ job[l].said /\ job[l].xid = x
  /\ registry'[x] = Written(l, x, "wrapper")

\* The wrapper of l drops the entry of a launcher it takes for dead.
Drops(l, x) ==
  /\ job[l].pc = "extract" /\ ~job[l].said /\ job[l].xid = x /\ registry[x].by = "launcher"
  /\ registry'[x] = NoEntry

\* Nothing else changes an entry.
LEMMA RegistrySteps ==
  ASSUME LaunchConstantsOK, Base, [Next]_vars, NEW x \in Xids
  PROVE  \/ registry'[x] = registry[x]
         \/ \E l \in Launches : /\ Acts(l) /\ Others(l) /\ xm' = xm
                                /\ Records(l, x) \/ Registers(l, x) \/ Drops(l, x)
<1>1. registry \in [Xids -> Entry]
  BY DEF Base, TypeOK
<1>2. ASSUME NEW l \in Launches, Record(l), registry'[x] # registry[x]
      PROVE  Records(l, x)
  BY <1>1, <1>2 DEF Record, At, Records
<1>3. ASSUME NEW l \in Launches, Extract(l), registry'[x] # registry[x]
      PROVE  Registers(l, x) \/ Drops(l, x)
  BY <1>1, <1>3 DEF Extract, At, Registers, Drops
<1>4. registry' = registry \/ \E l \in Launches : Record(l) \/ Extract(l)
  BY DEF Next, vars, Queue, Stage, Launch, Collect, Happens, Start, StageLock, Hash, Look,
         StageTemp, Publish, StageFallback, StageFresh, StageResume, BuildLock, Group,
         Create, Prepare, Package, Add, PrintLine, GcPlan, GcReprobe, GcTear,
         GcRemove, GcEnd, Die, Kill, Edit, Rot
<1>5. \A l \in Launches : Record(l) \/ Extract(l) => Acts(l) /\ xm' = xm
  <2>1. \A l \in Launches : Record(l) \/ Extract(l) => Acts(l)
    BY DEF Acts, Queue, Launch
  <2>2. \A l \in Launches : Record(l) => xm' = xm
    BY DEF Record
  <2>3. \A l \in Launches : Extract(l) => xm' = xm
    BY DEF Extract
  <2> QED BY <2>1, <2>2, <2>3
<1>6. \A l \in Launches : Acts(l) => Others(l)
  BY StepOfLaunch DEF Acts
<1> QED BY <1>2, <1>3, <1>4, <1>5, <1>6

\* Who comes to use an experiment made it, or resumes it from the directory its entry names.
LEMMA Usage ==
  ASSUME LaunchConstantsOK, Base, [Next]_vars, NEW l \in Launches, NEW x, x \in Uses(l)'
  PROVE  /\ x \in Xids
         /\ \/ x \in Uses(l) /\ job'[l].dir = job[l].dir /\ job'[l].sha = job[l].sha
            \/ /\ job'[l] # job[l] /\ job[l].pc \in Preparing /\ job[l].resumes = x
               /\ registry[x].dir # NoName
               /\ job'[l].dir = registry[x].dir /\ job'[l].sha = xm[x].want
            \/ /\ job'[l] # job[l] /\ job[l].pc \in Building
               /\ xm[x] = Nothing /\ xm' = [xm EXCEPT ![x].by = l, ![x].want = job[l].sha]
               /\ job'[l].dir = job[l].dir /\ job'[l].sha = job[l].sha
<1>1. job'[l].pc \in Building /\ x \in {job'[l].resumes, job'[l].xid} /\ x # NoXid
  BY DEF Uses
<1>2. Base'
  BY BaseStep
<1>3. x \in Xids
  BY <1>1, <1>2 DEF Base, TypeOK, Job
<1>4. job'[l].pc \notin Ended \cup Preparing
  BY <1>1 DEF Ended, Preparing, Staging, Building, Launching
<1>5. CASE job'[l] = job[l]
  BY <1>1, <1>3, <1>5 DEF Uses
<1>6. CASE /\ job[l].pc \in Preparing /\ job'[l].resumes = job[l].resumes
           /\ job'[l].xid = NoXid /\ Home(l)
  <2>1. job'[l] # job[l]
    BY <1>4, <1>6
  <2>2. x = job[l].resumes
    BY <1>1, <1>6
  <2> QED BY <1>1, <1>3, <1>6, <2>1, <2>2 DEF Home
<1>7. CASE /\ job[l].pc \in Building
           /\ job'[l].dir = job[l].dir /\ job'[l].sha = job[l].sha
           /\ job'[l].resumes = job[l].resumes
           /\ job'[l].xid \in {job[l].xid, NoXid, job[l].resumes} \/ NewExperiment(l)
  <2>1. CASE x \in {job[l].xid, job[l].resumes}
    BY <1>1, <1>3, <1>7, <2>1 DEF Uses
  <2>2. CASE NewExperiment(l) /\ x \notin {job[l].xid, job[l].resumes}
    <3>1. x = job'[l].xid /\ job'[l] # job[l]
      BY <1>1, <1>7, <2>2
    <3> QED BY <1>3, <1>7, <2>2, <3>1 DEF NewExperiment, Unused
  <2> QED BY <1>1, <1>7, <2>1, <2>2
<1> QED BY <1>4, <1>5, <1>6, <1>7, Walking DEF Walks

\* A work unit runs what its launch built, and an experiment is made for what its launch hashed.
LEMMA UnitSteps ==
  ASSUME LaunchConstantsOK, Base, [Next]_vars, NEW x \in Xids
  PROVE  xm'[x].units = xm[x].units \/ \E l \in Launches : Add(l)
<1>1. xm \in [Xids -> Experiment]
  BY DEF Base, TypeOK
<1>2. \A l \in Launches : Create(l) => xm'[x].units = xm[x].units
  <2> SUFFICES ASSUME NEW l \in Launches, Create(l)
               PROVE  xm'[x].units = xm[x].units
    OBVIOUS
  <2>1. \/ xm' = xm
        \/ \E y \in Xids : xm' = [xm EXCEPT ![y].by = l, ![y].want = job[l].sha]
    BY DEF Create
  <2>2. ASSUME NEW y \in Xids, xm' = [xm EXCEPT ![y].by = l, ![y].want = job[l].sha]
        PROVE  xm'[x].units = xm[x].units
    <3>1. CASE x = y
      BY <1>1, <2>2, <3>1 DEF Experiment
    <3>2. CASE x # y
      BY <1>1, <2>2, <3>2
    <3> QED BY <3>1, <3>2
  <2> QED BY <2>1, <2>2
<1> QED BY <1>2, ZenonT(40) DEF Next, vars, Queue, Stage, Launch, Collect, Happens, Start, StageLock, Hash,
       Look, StageTemp, Publish, StageFallback, StageFresh, StageResume, BuildLock, Group,
       Prepare, Package, Record, PrintLine, Extract, GcPlan, GcReprobe, GcTear, GcRemove,
       GcEnd, Die, Kill, Edit, Rot

\* A launch prepares once.
LEMMA PreparingBefore ==
  ASSUME LaunchConstantsOK, Base, [Next]_vars, NEW l \in Launches, job[l].pc \notin Preparing
  PROVE  job'[l].pc \notin Preparing
<1>1. Ended \cap Preparing = {} /\ Building \cap Preparing = {} /\ "buildlock" \notin Preparing
  BY DEF Ended, Preparing, Staging, Building, Launching
<1> QED BY <1>1, Walking DEF Walks

\* A directory whose content is fixed stays so.
LEMMA FixedStays ==
  ASSUME LaunchConstantsOK, Base, [Next]_vars
  PROVE  \A n : Fixed(n) => FixedThen(n)
BY PreparingBefore DEF Fixed, FixedThen

\* Shared holds at first.
LEMMA SharedInit ==
  ASSUME LaunchConstantsOK, Init
  PROVE  Shared
<1>1. \A l \in Launches : job[l].pc \notin Building
  BY DEF Init, Shell, Building, Launching
<1>2. \A x \in Xids : registry[x] = NoEntry /\ xm[x] = Nothing
  BY DEF Init
<1> QED BY <1>1, <1>2, StagesInit DEF Shared, RegisteredHasWork, UsersAgree, UsersKnow,
           EntriesKnow, HomesFixed, Uses, Nothing

\* Every step keeps it.
LEMMA SharedStep ==
  ASSUME LaunchConstantsOK, Shared, [Next]_vars
  PROVE  Shared'
<1> USE DEF Shared, Stages
<1>1. /\ job \in [Launches -> Job] /\ xm \in [Xids -> Experiment] /\ registry \in [Xids -> Entry]
      /\ \A l \in Launches : Tells(l)
  BY DEF Base, TypeOK, PlaceTells
<1>2. Stages' /\ XmGrows
  BY StagesStep, Grows
<1>3. RegisteredHasWork'
  BY HasWorkStep
<1>4. \A x \in Xids : xm[x] = Nothing => registry[x] = NoEntry /\ \A l \in Launches : x \notin Uses(l)
  <2> SUFFICES ASSUME NEW x \in Xids, xm[x] = Nothing
               PROVE  registry[x] = NoEntry /\ \A l \in Launches : x \notin Uses(l)
    OBVIOUS
  <2>1. xm[x].by = NoLaunch /\ xm[x].units = {}
    BY DEF Nothing
  <2> QED BY <2>1 DEF UsersKnow, RegisteredHasWork
<1>5. \A l, m \in Launches : job'[l] # job[l] /\ job'[m] # job[m] => l = m
  BY Who, StepOfLaunch DEF Acts, Others
<1>6. \A x \in Xids : registry[x].dir # NoName => registry[x] # NoEntry
  BY DEF NoEntry
<1>7. UsersAgree'
  <2> SUFFICES ASSUME NEW l \in Launches, NEW m \in Launches, l # m, NEW x,
                      x \in Uses(l)', x \in Uses(m)'
               PROVE  job'[l].dir = job'[m].dir
    BY DEF UsersAgree
  <2>1. CASE /\ x \in Uses(l) /\ job'[l].dir = job[l].dir
             /\ x \in Uses(m) /\ job'[m].dir = job[m].dir
    BY <2>1 DEF UsersAgree
  <2>2. ASSUME NEW a \in Launches, NEW b \in Launches, a # b,
               x \in Uses(b) /\ job'[b].dir = job[b].dir, x \in Uses(a)',
               ~(x \in Uses(a) /\ job'[a].dir = job[a].dir)
        PROVE  job'[a].dir = job'[b].dir
    <3>1. x \in Xids /\ xm[x] # Nothing
      BY <1>4, <2>2, Usage
    <3>2. registry[x].dir # NoName /\ job'[a].dir = registry[x].dir
      BY <2>2, <3>1, Usage
    <3> QED BY <1>6, <2>2, <3>1, <3>2 DEF UsersKnow
  <2>3. \/ x \in Uses(l) /\ job'[l].dir = job[l].dir
        \/ x \in Uses(m) /\ job'[m].dir = job[m].dir
    BY <1>5, Usage, ZenonT(40)
  <2> QED BY <2>1, <2>2, <2>3
<1>8. UsersKnow'
  <2> SUFFICES ASSUME NEW l \in Launches, NEW x, x \in Uses(l)'
               PROVE  /\ xm'[x].by # NoLaunch /\ job'[l].sha = xm'[x].want
                      /\ registry'[x] # NoEntry => registry'[x].dir = job'[l].dir
    BY DEF UsersKnow
  <2>1. x \in Xids
    BY Usage
  <2>2. ASSUME registry'[x] = registry[x]
        PROVE  /\ xm'[x].by # NoLaunch /\ job'[l].sha = xm'[x].want
               /\ registry'[x] # NoEntry => registry'[x].dir = job'[l].dir
    <3>1. CASE x \in Uses(l) /\ job'[l].dir = job[l].dir /\ job'[l].sha = job[l].sha
      BY <1>2, <2>1, <2>2, <3>1 DEF UsersKnow, XmGrows
    <3>2. CASE /\ registry[x].dir # NoName
               /\ job'[l].dir = registry[x].dir /\ job'[l].sha = xm[x].want
      <4>1. xm[x].by # NoLaunch
        BY <1>6, <2>1, <3>2 DEF RegisteredHasWork, EntriesKnow
      <4> QED BY <1>2, <2>1, <2>2, <3>2, <4>1 DEF XmGrows
    <3>3. CASE /\ xm[x] = Nothing /\ xm' = [xm EXCEPT ![x].by = l, ![x].want = job[l].sha]
               /\ job'[l].dir = job[l].dir /\ job'[l].sha = job[l].sha
      <4>1. xm'[x].by = l /\ xm'[x].want = job[l].sha
        BY <1>1, <2>1, <3>3 DEF Experiment
      <4>2. l # NoLaunch
        BY DEF LaunchConstantsOK
      <4> QED BY <1>4, <2>1, <2>2, <3>3, <4>1, <4>2
    <3> QED BY <3>1, <3>2, <3>3, Usage
  <2>3. ASSUME NEW m \in Launches, Acts(m), Others(m), xm' = xm,
               Records(m, x) \/ Registers(m, x) \/ Drops(m, x)
        PROVE  /\ xm'[x].by # NoLaunch /\ job'[l].sha = xm'[x].want
               /\ registry'[x] # NoEntry => registry'[x].dir = job'[l].dir
    <3>1. job[m].pc \in Building /\ job[m].pc \notin Preparing /\ x \in Uses(m)
      BY <2>1, <2>3, Places DEF Records, Registers, Drops, Uses, Building, Launching, Preparing,
         Staging
    <3>2. job'[l] # job[l] => l = m
      BY <2>3 DEF Others
    <3>3. xm[x] # Nothing
      BY <1>4, <2>1, <3>1
    <3>4. x \in Uses(l) /\ job'[l].dir = job[l].dir /\ job'[l].sha = job[l].sha
      BY <3>1, <3>2, <3>3, Usage
    <3>5. registry'[x] # NoEntry => registry'[x].dir = job[m].dir
      BY <2>3 DEF Records, Registers, Drops, Written
    <3> QED BY <2>3, <3>1, <3>4, <3>5 DEF UsersKnow, UsersAgree
  <2> QED BY <2>1, <2>2, <2>3, RegistrySteps
<1>9. EntriesKnow'
  <2> SUFFICES ASSUME NEW x \in Xids
               PROVE  /\ registry'[x].by = "none" => registry'[x] = NoEntry
                      /\ xm'[x].units # {} => xm'[x].by # NoLaunch
    BY DEF EntriesKnow
  <2>1. registry'[x].by = "none" => registry'[x] = NoEntry
    <3>1. CASE registry'[x] = registry[x]
      BY <3>1 DEF EntriesKnow
    <3>2. ASSUME NEW l \in Launches, Records(l, x) \/ Registers(l, x) \/ Drops(l, x)
          PROVE  registry'[x].by = "none" => registry'[x] = NoEntry
      BY <3>2 DEF Records, Registers, Drops, Written
    <3> QED BY <3>1, <3>2, RegistrySteps
  <2>2. xm'[x].units # {} => xm'[x].by # NoLaunch
    <3>1. CASE xm[x].units # {}
      BY <1>2, <3>1 DEF EntriesKnow, XmGrows
    <3>2. CASE xm'[x].units = xm[x].units
      BY <1>2, <3>2 DEF EntriesKnow, XmGrows
    <3>3. ASSUME NEW l \in Launches, Add(l), xm'[x].units # xm[x].units
          PROVE  xm'[x].by # NoLaunch
      <4>1. job[l].xid = x
        BY <1>1, <3>3 DEF Add, Experiment
      <4>2. x \in Uses(l)
        BY <3>3, <4>1, Places DEF Add, At, Uses, Building, Launching
      <4> QED BY <1>2, <4>2 DEF UsersKnow, XmGrows
    <3>4. xm'[x].units = xm[x].units \/ \E l \in Launches : Add(l)
      BY UnitSteps
    <3> QED BY <3>1, <3>2, <3>3, <3>4
  <2> QED BY <2>1, <2>2
<1>10. HomesFixed'
  <2>1. ASSUME NEW l \in Launches, job'[l].pc \in Building
        PROVE  FixedThen(job'[l].dir)
    <3>1. job'[l].pc \notin Ended \cup Preparing
      BY <2>1 DEF Ended, Preparing, Staging, Building, Launching
    <3>2. CASE job[l].pc \in Building /\ job'[l].dir = job[l].dir
      BY <3>2, FixedStays DEF HomesFixed
    <3>3. CASE Home(l)
      <4>1. CASE job[l].resumes \in Xids /\ registry[job[l].resumes].dir # NoName
                 /\ job'[l].dir = registry[job[l].resumes].dir
        BY <1>6, <4>1, FixedStays DEF HomesFixed
      <4>2. CASE job'[l].dir \in {Fallback(l), Run(l)} \/ \E c \in Codes : job'[l].dir = Final(c)
        BY <3>1, <4>2 DEF FixedThen
      <4> QED BY <3>3, <4>1, <4>2 DEF Home
    <3> QED BY <2>1, <3>1, <3>2, <3>3, Walking DEF Walks, HomesFixed
  <2>2. ASSUME NEW x \in Xids, registry'[x] # NoEntry
        PROVE  FixedThen(registry'[x].dir)
    <3>1. CASE registry'[x] = registry[x]
      BY <2>2, <3>1, FixedStays DEF HomesFixed
    <3>2. ASSUME NEW l \in Launches, Records(l, x) \/ Registers(l, x) \/ Drops(l, x)
          PROVE  FixedThen(registry'[x].dir)
      <4>1. job[l].pc \in Building /\ registry'[x].dir = job[l].dir
        BY <2>2, <3>2 DEF Records, Registers, Drops, Written, Building, Launching
      <4> QED BY <4>1, FixedStays DEF HomesFixed
    <3> QED BY <3>1, <3>2, RegistrySteps
  <2> QED BY <2>1, <2>2 DEF HomesFixed, Fixed, FixedThen
<1> QED BY <1>2, <1>3, <1>7, <1>8, <1>9, <1>10

-----------------------------------------------------------------------------
(* The directories of registered experiments stay.                         *)

\* No directory of the plan was made by the launch that registered it.
NotPlanned ==
  \A x \in Xids : registry[x] # NoEntry /\ registry[x].dir \in gc.plan =>
    dirs[registry[x].dir].by # registry[x].of

\* The strengthening of RegisteredDirsStay.
Kept == Shared /\ NotPlanned

\* It holds at first.
LEMMA KeptInit ==
  ASSUME LaunchConstantsOK, Init
  PROVE  Kept
BY SharedInit DEF Kept, NotPlanned, Init

\* Every step keeps it: who registers a directory it made is alive, and so the directory is in no
\* plan, nor comes into one while its entry stands.
LEMMA KeptStep ==
  ASSUME LaunchConstantsOK, Kept, [Next]_vars
  PROVE  Kept'
<1> USE DEF Kept, Shared, Stages
<1>1. Shared'
  BY SharedStep
<1>2. NotPlanned'
  <2> SUFFICES ASSUME NEW x \in Xids, registry'[x] # NoEntry, NEW n, n = registry'[x].dir,
                      n \in gc'.plan, dirs'[n].by = registry'[x].of
               PROVE  FALSE
    BY DEF NotPlanned
  <2>1. CASE n \notin gc.plan
    <3>1. n \in Old /\ n \notin Referenced /\ registry' = registry
      BY <2>1, PlanSteps
    <3>2. n \in Names
      BY <3>1 DEF Old
    <3>3. n \in Referenced
      BY <3>1, <3>2, NamesApart DEF Referenced
    <3> QED BY <3>1, <3>3
  <2>2. CASE n \in gc.plan
    <3>1. dirs[n].by = registry'[x].of /\ job[dirs[n].by].pc \in Ended
      BY <2>2, PlannedStays DEF PlannedIsLeft
    <3>2. registry[x] = NoEntry \/ registry[x].dir # n \/ registry[x].of # registry'[x].of
      BY <2>2, <3>1 DEF NotPlanned
    <3>3. registry'[x] # registry[x]
      BY <3>2
    <3>4. PICK l \in Launches : Records(l, x) \/ Registers(l, x) \/ Drops(l, x)
      BY <3>3, RegistrySteps
    <3>5. /\ job[l].pc \in {"record", "extract"} /\ job[l].xid = x /\ job[l].dir = n
          /\ registry'[x].of = IF registry[x] = NoEntry THEN l ELSE registry[x].of
      BY <3>4 DEF Records, Registers, Drops, Written
    <3>6. CASE registry[x] = NoEntry
      BY <3>1, <3>5, <3>6 DEF Ended
    <3>7. CASE registry[x] # NoEntry
      <4>1. x \in Uses(l)
        BY <3>5, Places DEF Uses, Building, Launching
      <4>2. registry[x].dir = n
        BY <3>5, <3>7, <4>1 DEF UsersKnow
      <4> QED BY <3>2, <3>5, <3>7, <4>2
    <3> QED BY <3>6, <3>7
  <2> QED BY <2>1, <2>2
<1> QED BY <1>1, <1>2

\* One step as RegisteredDirsStay wants it.
RegisteredKept ==
  \A x \in Xids : LET n == registry[x].dir IN
    (n # NoName /\ registry'[x] = registry[x] /\ Exists(n) /\ dirs[n].by = registry[x].of)
      => Same(dirs[n], dirs'[n])

\* Every step is such a step.
LEMMA RegisteredUntouched ==
  ASSUME LaunchConstantsOK, Kept, [Next]_vars
  PROVE  RegisteredKept
<1> USE DEF Kept, Shared, Stages
<1> SUFFICES ASSUME NEW x \in Xids, NEW n, n = registry[x].dir, n # NoName, Exists(n),
                    dirs[n].by = registry[x].of
             PROVE  Same(dirs[n], dirs'[n])
  BY DEF RegisteredKept
<1>1. registry[x] # NoEntry /\ Fixed(n)
  BY DEF HomesFixed, NoEntry
<1>2. n \in Names
  BY <1>1, NamesApart DEF Fixed
<1>3. ~Torn(n)
  BY <1>1 DEF Torn, Taking, NotPlanned
<1>4. \A l \in Launches : ~Writes(l, n) /\ ~Published(l, n)
  BY <1>1, NamesApart DEF Fixed, Writes, Published
<1> QED BY <1>2, <1>3, <1>4, DirSteps DEF Same, Rots

\* The collector takes nothing of a directory that an entry names and the launch of that entry made:
\* between its two readings of the registry and its last removal no entry can come to name a
\* directory of its plan but one that its launch found there.
THEOREM RegisteredStay == Spec => RegisteredDirsStay
<1>1. Init => Kept
  BY LaunchConstantsOK, KeptInit
<1>2. Kept /\ [Next]_vars => Kept'
  BY LaunchConstantsOK, KeptStep
<1>3. Kept /\ [Next]_vars => [RegisteredKept]_vars
  BY LaunchConstantsOK, RegisteredUntouched
<1> QED BY <1>1, <1>2, <1>3, PTL DEF Spec, RegisteredDirsStay, RegisteredKept

-----------------------------------------------------------------------------
(* What runs is what was staged.                                           *)

\* Content c, or what the collector left of it.
From(c) == {c, Remnant(c)}

\* Directory n gives content c, if it is there, to whoever builds it or has its package.
Good(n, c) ==
  /\ c \in Codes
  /\ \/ n = Final(c)
     \/ /\ \E k \in Launches : n \in {Fallback(k), Run(k)} /\ job[k].pc \notin Preparing
        /\ Exists(n) => dirs[n].whole /\ dirs[n].code = c
        /\ packages[n] \in {NoCode} \cup From(c)

\* The same after the step.
GoodThen(n, c) ==
  /\ c \in Codes
  /\ \/ n = Final(c)
     \/ /\ \E k \in Launches : n \in {Fallback(k), Run(k)} /\ job'[k].pc \notin Preparing
        /\ dirs'[n] # Absent => dirs'[n].whole /\ dirs'[n].code = c
        /\ packages'[n] \in {NoCode} \cup From(c)

\* What a launch builds from, and what an entry names, gives the content hashed.
StagesGood ==
  /\ \A l \in Launches : job[l].pc \in Building => Good(job[l].dir, job[l].sha)
  /\ \A x \in Xids : registry[x] # NoEntry => Good(registry[x].dir, xm[x].want)

\* A package of a published label is of its content; the labels that are not content-addressed have
\* none, and neither has a private directory not yet staged.
PackagesGood ==
  /\ \A c \in Codes : packages[Final(c)] \in {NoCode} \cup From(c)
  /\ \A k \in Launches : /\ packages[Run(k)] = NoCode
                         /\ job[k].pc \in Preparing => packages[Fallback(k)] = NoCode

\* What was built is of what was staged.
BuiltIsStaged == \A l \in Launches : job[l].pc = "add" => job[l].built \in From(job[l].sha)

\* The strengthening of RunsItsSource.
Sound == /\ Shared /\ Whole /\ StagesGood /\ PackagesGood /\ BuiltIsStaged /\ RunsItsSource

\* It holds at first.
LEMMA SoundInit ==
  ASSUME LaunchConstantsOK, Init
  PROVE  Sound
<1>1. \A l \in Launches : job[l].pc = "start"
  BY DEF Init, Shell
<1>2. \A x \in Xids : registry[x] = NoEntry /\ xm[x].units = {}
  BY DEF Init, Nothing
<1>3. \A n \in Names : packages[n] = NoCode
  BY DEF Init
<1>4. StagesGood
  BY <1>1, <1>2 DEF StagesGood, Building, Launching
<1>5. PackagesGood
  BY <1>3, NamesApart DEF PackagesGood
<1>6. BuiltIsStaged /\ RunsItsSource
  BY <1>1, <1>2 DEF BuiltIsStaged, RunsItsSource
<1> QED BY <1>4, <1>5, <1>6, SharedInit, WholeInit DEF Sound

\* A build gives what its launch staged.
LEMMA BuildsItsStage ==
  ASSUME LaunchConstantsOK, Sound, NEW l \in Launches, job[l].pc \in Building,
         NEW c \in Build(job[l].dir)
  PROVE  c \in From(job[l].sha)
<1> USE DEF Sound, Shared, Stages, Whole
<1>1. Good(job[l].dir, job[l].sha)
  BY DEF StagesGood
<1>2. job[l].dir \in Names
  BY DEF Base, PlaceTells, Tells
<1>3. /\ Exists(job[l].dir) /\ dirs[job[l].dir].checks
      /\ dirs[job[l].dir].whole => c \in From(dirs[job[l].dir].code)
  BY <1>2, BuildIs DEF From
<1>4. CASE job[l].dir = Final(job[l].sha)
  BY <1>1, <1>3, <1>4 DEF FinalIsItsCode, Good
<1>5. CASE dirs[job[l].dir].whole /\ dirs[job[l].dir].code = job[l].sha
  BY <1>3, <1>5
<1> QED BY <1>1, <1>3, <1>4, <1>5 DEF Good

\* A package is only ever of what was staged under its label.
LEMMA PackageSteps ==
  ASSUME LaunchConstantsOK, Sound, [Next]_vars, NEW n \in Names
  PROVE  \/ packages'[n] = packages[n]
         \/ \E l \in Launches : /\ job[l].pc \in Building /\ job[l].dir = n /\ Exists(n)
                                /\ ContentAddressed(n) /\ packages'[n] \in From(job[l].sha)
<1> USE DEF Sound, Shared, Stages
<1>1. ASSUME NEW l \in Launches, Package(l), packages'[n] # packages[n]
      PROVE  /\ job[l].pc \in Building /\ job[l].dir = n /\ Exists(n)
             /\ ContentAddressed(n) /\ packages'[n] \in From(job[l].sha)
  <2>1. job[l].pc \in Building
    BY <1>1 DEF Package, At, Building, Launching
  <2>2. packages \in [Names -> Contents]
    BY DEF Base, TypeOK
  <2>3. PICK c \in Build(job[l].dir) :
          packages' = IF ContentAddressed(job[l].dir)
                      THEN [packages EXCEPT ![job[l].dir] = c] ELSE packages
    BY <1>1, PackageIs
  <2>4. c \in From(job[l].sha) /\ Exists(job[l].dir)
    BY <2>1, <2>3, BuildsItsStage DEF Build
  <2> QED BY <1>1, <2>1, <2>2, <2>3, <2>4
<1>2. packages' = packages \/ \E l \in Launches : Package(l)
  BY ZenonT(40) DEF Next, vars, Queue, Stage, Launch, Collect, Happens, Start, StageLock, Hash, Look,
         StageTemp, Publish, StageFallback, StageFresh, StageResume, BuildLock, Group,
         Create, Prepare, Add, Record, PrintLine, Extract, GcPlan, GcReprobe, GcTear,
         GcRemove, GcEnd, Die, Kill, Edit, Rot
<1> QED BY <1>1, <1>2

\* A directory goes on giving what it gives: the collector leaves files of it or nothing.
LEMMA GoodStays ==
  ASSUME LaunchConstantsOK, Sound, [Next]_vars, NEW n, NEW c, Good(n, c)
  PROVE  GoodThen(n, c)
<1> USE DEF Sound, Shared, Stages
<1>1. CASE n = Final(c)
  BY <1>1 DEF Good, GoodThen
<1>2. ASSUME NEW k \in Launches, n \in {Fallback(k), Run(k)}, job[k].pc \notin Preparing,
             Exists(n) => dirs[n].whole /\ dirs[n].code = c,
             packages[n] \in {NoCode} \cup From(c)
      PROVE  GoodThen(n, c)
  <2>1. n \in Names /\ \A d \in Codes : n # Final(d)
    BY <1>2, NamesApart
  <2>2. dirs'[n] # Absent => dirs'[n].whole /\ dirs'[n].code = c
    <3>1. ~Rots(n)
      BY <2>1 DEF Rots
    <3>2. \A m \in Launches : ~Writes(m, n) /\ ~Published(m, n)
      BY <1>2, <2>1, NamesApart DEF Writes, Published
    <3>3. Torn(n) => \/ dirs'[n] = Absent
                     \/ /\ Exists(n) /\ dirs'[n].whole = dirs[n].whole
                        /\ dirs'[n].code = dirs[n].code
      BY DEF Torn
    <3>4. dirs'[n] = dirs[n] \/ Torn(n)
      BY <2>1, <3>1, <3>2, DirSteps
    <3> QED BY <1>2, <3>3, <3>4 DEF Exists
  <2>3. packages'[n] \in {NoCode} \cup From(c)
    <3>1. ASSUME NEW m \in Launches, job[m].pc \in Building, job[m].dir = n, Exists(n)
          PROVE  job[m].sha = c
      BY <1>2, <2>1, <3>1 DEF StagesGood, Good
    <3> QED BY <1>2, <2>1, <3>1, PackageSteps
  <2>4. job'[k].pc \notin Preparing
    BY <1>2, PreparingBefore
  <2> QED BY <1>2, <2>2, <2>3, <2>4 DEF Good, GoodThen
<1> QED BY <1>1, <1>2 DEF Good

\* Every step keeps it, where a stage is what it was hashed as.
LEMMA SoundStep ==
  ASSUME LaunchConstantsOK, "hole" \notin Faults, "edit" \notin Faults,
         Sound, [Next]_vars
  PROVE  Sound'
<1> USE DEF Sound, Shared, Stages, Whole
<1>1. /\ job \in [Launches -> Job] /\ xm \in [Xids -> Experiment] /\ registry \in [Xids -> Entry]
      /\ \A l \in Launches : Tells(l)
  BY DEF Base, TypeOK, PlaceTells
<1>2. Shared' /\ Whole' /\ XmGrows
  BY SharedStep, WholeStep, Grows
<1>3. \A k \in Launches : job[k].pc \in Preparing => packages'[Fallback(k)] = NoCode
  <2> SUFFICES ASSUME NEW k \in Launches, job[k].pc \in Preparing
               PROVE  packages'[Fallback(k)] = NoCode
    OBVIOUS
  <2>1. \A m \in Launches : job[m].pc \in Building => job[m].dir # Fallback(k)
    BY NamesApart DEF StagesGood, Good
  <2> QED BY <2>1, PackageSteps, NamesApart DEF PackagesGood
<1>4. \A k \in Launches : packages'[Run(k)] = NoCode
  <2>1. \A k \in Launches : ~ContentAddressed(Run(k))
    BY NamesApart
  <2> QED BY <2>1, PackageSteps, NamesApart DEF PackagesGood
<1>5. PackagesGood'
  <2>1. ASSUME NEW c \in Codes
        PROVE  packages'[Final(c)] \in {NoCode} \cup From(c)
    <3>1. ASSUME NEW m \in Launches, job[m].pc \in Building, job[m].dir = Final(c)
          PROVE  job[m].sha = c
      BY <3>1, NamesApart DEF StagesGood, Good
    <3> QED BY <3>1, PackageSteps, NamesApart DEF PackagesGood
  <2> QED BY <1>3, <1>4, <2>1, PreparingBefore DEF PackagesGood
<1>6. \A x \in Xids : registry[x] # NoEntry => xm'[x].want = xm[x].want
  <2>1. \A x \in Xids : registry[x] # NoEntry => xm[x].by # NoLaunch
    BY DEF RegisteredHasWork, EntriesKnow
  <2> QED BY <1>2, <2>1 DEF XmGrows
<1>7. ASSUME NEW l \in Launches, job'[l].pc \in Building
      PROVE  GoodThen(job'[l].dir, job'[l].sha)
  <2>1. job'[l].pc \notin Ended \cup Preparing
    BY <1>7 DEF Ended, Preparing, Staging, Building, Launching
  <2>2. CASE job[l].pc \in Building /\ job'[l].dir = job[l].dir /\ job'[l].sha = job[l].sha
    BY <2>2, GoodStays DEF StagesGood
  <2>3. CASE job[l].pc \in Preparing /\ Home(l)
    <3>1. job[l].source \in Codes
      BY <1>1, <2>3 DEF Tells
    <3>2. CASE \E c \in Codes : job'[l].dir = Final(c) /\ job'[l].sha = c
      BY <3>2 DEF GoodThen
    <3>3. CASE /\ job'[l].dir = Fallback(l) /\ job'[l].sha = job[l].sha
               /\ job[l].pc \in Staging /\ Complete(Fallback(l), job[l].source)
      <4>1. job[l].sha = job[l].source
        BY <3>3 DEF HashIsSource
      <4> QED BY <1>3, <2>1, <2>3, <3>1, <3>3, <4>1 DEF Complete, GoodThen
    <3>4. CASE /\ job'[l].dir = Run(l) /\ job'[l].sha = job[l].source
               /\ Complete(Run(l), job[l].source)
      BY <1>4, <2>1, <3>1, <3>4 DEF Complete, GoodThen
    <3>5. ASSUME NEW x \in Xids, registry[x].dir # NoName,
                 job'[l].dir = registry[x].dir, job'[l].sha = xm[x].want
          PROVE  GoodThen(job'[l].dir, job'[l].sha)
      <4>1. registry[x] # NoEntry
        BY <3>5 DEF NoEntry
      <4> QED BY <1>6, <3>5, <4>1, GoodStays DEF StagesGood
    <3> QED BY <2>3, <3>2, <3>3, <3>4, <3>5 DEF Home
  <2>4. job'[l] = job[l] \/ Walks(l)
    BY Walking
  <2> QED BY <1>7, <2>1, <2>2, <2>3, <2>4 DEF Walks
<1>8. ASSUME NEW x \in Xids, registry'[x] # NoEntry
      PROVE  GoodThen(registry'[x].dir, xm'[x].want)
  <2>1. CASE registry'[x] = registry[x]
    BY <1>6, <1>8, <2>1, GoodStays DEF StagesGood
  <2>2. ASSUME NEW l \in Launches, Records(l, x) \/ Registers(l, x) \/ Drops(l, x)
        PROVE  GoodThen(registry'[x].dir, xm'[x].want)
    <3>1. job[l].pc \in Building /\ registry'[x].dir = job[l].dir /\ x \in Uses(l)
      BY <1>8, <2>2, Places DEF Records, Registers, Drops, Written, Building, Launching, Uses
    <3>2. job[l].sha = xm'[x].want
      BY <1>2, <3>1 DEF UsersKnow, XmGrows
    <3> QED BY <3>1, <3>2, GoodStays DEF StagesGood
  <2> QED BY <2>1, <2>2, RegistrySteps
<1>9. StagesGood'
  BY <1>7, <1>8 DEF StagesGood, Good, GoodThen, Exists
<1>10. BuiltIsStaged'
  <2> SUFFICES ASSUME NEW l \in Launches, job'[l].pc = "add"
               PROVE  job'[l].built \in From(job'[l].sha)
    BY DEF BuiltIsStaged
  <2>1. CASE job'[l] = job[l]
    BY <2>1 DEF BuiltIsStaged
  <2>2. CASE Package(l)
    <3>1. job[l].pc \in Building /\ job[l].dir \in Names
      BY <1>1, <2>2 DEF Package, At, Building, Launching, Tells
    <3>2. ASSUME NEW c \in Contents, Packaged(l, c), c \in From(job[l].sha)
          PROVE  job'[l].built \in From(job'[l].sha)
      BY <1>1, <3>2, PackagedIs
    <3>3. Good(job[l].dir, job[l].sha) /\ job[l].sha \in Codes
      BY <3>1 DEF StagesGood, Good
    <3>4. CASE Cached(job[l].dir) /\ Packaged(l, packages[job[l].dir])
      <4>1. packages[job[l].dir] \in From(job[l].sha)
        BY <3>3, <3>4 DEF Cached, Good, PackagesGood
      <4>2. packages[job[l].dir] \in Contents
        BY <3>1 DEF Base, TypeOK
      <4> QED BY <3>2, <3>4, <4>1, <4>2
    <3>5. ASSUME NEW c \in Build(job[l].dir), Packaged(l, c)
          PROVE  job'[l].built \in From(job'[l].sha)
      BY <3>1, <3>2, <3>5, BuildIs, BuildsItsStage
    <3>6. ~LauncherStops(l) /\ ~Goto(l, "wedged")
      BY <1>1 DEF LauncherStops, Goto, Job
    <3> QED BY <2>2, <3>4, <3>5, <3>6, PackageIs
  <2>3. job'[l] = job[l] \/ Package(l)
    <3>1. job'[l].pc \notin Ended \cup Preparing
      BY DEF Ended, Preparing, Staging
    <3> QED BY <3>1, Walking DEF Walks
  <2> QED BY <2>1, <2>2, <2>3
<1>11. RunsItsSource'
  <2> SUFFICES ASSUME NEW x \in Xids
               PROVE  xm'[x].units \subseteq From(xm'[x].want)
    BY DEF RunsItsSource, From
  <2>1. CASE xm'[x].units = xm[x].units
    <3>1. CASE xm[x].units = {}
      BY <2>1, <3>1
    <3>2. CASE xm[x].units # {}
      BY <1>2, <2>1, <3>2 DEF EntriesKnow, XmGrows, RunsItsSource, From
    <3> QED BY <3>1, <3>2
  <2>2. ASSUME NEW l \in Launches, Add(l), xm'[x].units # xm[x].units
        PROVE  xm'[x].units \subseteq From(xm'[x].want)
    <3>1. job[l].xid = x /\ xm'[x].units = xm[x].units \cup {job[l].built} /\ job[l].pc = "add"
      BY <1>1, <2>2 DEF Add, At, Experiment
    <3>2. x \in Uses(l)
      BY <3>1, Places DEF Uses, Building, Launching
    <3>3. job[l].built \in From(xm[x].want) /\ xm'[x].want = xm[x].want
      BY <1>2, <3>1, <3>2 DEF BuiltIsStaged, UsersKnow, XmGrows
    <3> QED BY <3>1, <3>3 DEF RunsItsSource, From
  <2>3. xm'[x].units = xm[x].units \/ \E l \in Launches : Add(l)
    BY UnitSteps
  <2> QED BY <2>1, <2>2, <2>3
<1> QED BY <1>2, <1>5, <1>9, <1>10, <1>11

\* Whatever runs is the code its launch staged, the code of the experiment resumed included, or
\* what the collector left of that same code, whichever directory, label or package it came by:
\* where no writes are lost in files the checks do not read and no tree is edited while it is staged.
THEOREM RunsWhatItStaged ==
  ASSUME "hole" \notin Faults, "edit" \notin Faults
  PROVE  Spec => []RunsItsSource
<1>1. Init => Sound
  BY LaunchConstantsOK, SoundInit
<1>2. Sound /\ [Next]_vars => Sound'
  BY LaunchConstantsOK, SoundStep
<1>3. Sound => RunsItsSource
  BY DEF Sound
<1> QED BY <1>1, <1>2, <1>3, PTL DEF Spec

=============================================================================
