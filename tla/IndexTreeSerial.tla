-------------------------- MODULE IndexTreeSerial ---------------------------
(***************************************************************************)
(* When commands run one at a time: SerialInv, the beginning and the end   *)
(* of a command, the steps all commands share, those of `index add` and of *)
(* `index remove`, the writes of the JSON files, and what a successful     *)
(* `index add` has published.  When they also run to their end: CleanInv,  *)
(* and every step as an operation of IndexProtocol or as none.             *)
(***************************************************************************)
EXTENDS IndexTreeProofs, IndexTreeRefinement

\* A leaf is Zenon's unless it names another prover.
USE Zenon

LEMMA NoJobFields == /\ NoJob.op = "init" /\ NoJob.vers = <<>> /\ NoJob.next = 1
                     /\ NoJob.idx = NoProjects
BY DEF NoJob

LEMMA ContinueValues ==
    ASSUME ControlInv, NEW self \in Procs, NEW label, NEW locals,
           Continue(self, label, locals)
    PROVE  pc'[self] = label /\ job'[self] = locals
BY DEF ControlInv, Continue, Goto

LEMMA SerialInit == Init => SerialInv
<1> SUFFICES ASSUME Init PROVE SerialInv
  OBVIOUS
<1> USE NoJobFields DEF Init, NothingAdded
<1>1. VersionFilesPresent
  BY SMT DEF VersionFilesPresent, Blank
<1>2. RemovedProjectHasNoLiveVersion
  BY SMT DEF RemovedProjectHasNoLiveVersion, Blank
<1>3. ASSUME NEW self \in Procs PROVE Progress(self)
  <2>1. pc[self] = "idle" /\ job[self] = NoJob
    OBVIOUS
  <2>2. StepsOfCommand(self)
    BY <2>1 DEF StepsOfCommand, FileNames
  <2>3. WritableList(self)
    BY SMT, <2>1 DEF WritableList
  <2>4. AddProgress(self)
    BY <2>1 DEF AddProgress, FileNames
  <2>5. RemoveProgress(self)
    BY <2>1 DEF RemoveProgress
  <2>6. IndexProgress(self)
    BY <2>1 DEF IndexProgress, NoProjects, Removing
  <2> QED
    BY <2>2, <2>3, <2>4, <2>5, <2>6 DEF Progress
<1> QED
  BY <1>1, <1>2, <1>3 DEF SerialInv, Exclusive

-----------------------------------------------------------------------------
(* `index remove` and the writes *)

LEMMA SerialNextStep ==
    ASSUME BaseInv, SerialInv, [SerialNext]_vars
    PROVE  BaseInv' /\ SerialInv'
\* A process that runs no command imposes nothing on the tree.
<1>IdleProgress.
      ASSUME NEW self \in Procs, pc'[self] = "idle", job'[self] = NoJob
      PROVE  Progress(self)'
  <2> USE <1>IdleProgress
  <2> USE NoJobFields
  <2>1. StepsOfCommand(self)'
    BY DEF StepsOfCommand, FileNames
  <2>2. WritableList(self)'
    BY SMT DEF WritableList
  <2>3. AddProgress(self)'
    BY DEF AddProgress, FileNames
  <2>4. RemoveProgress(self)'
    BY DEF RemoveProgress
  <2>5. IndexProgress(self)'
    BY DEF IndexProgress, NoProjects, Removing
  <2> QED
    BY <2>1, <2>2, <2>3, <2>4, <2>5 DEF Progress
\* So a step of one command is to be checked against its own progress only.
<1>SerialFrame.
      ASSUME SerialInv, NEW self \in Procs,
             \A o \in Procs : o # self => /\ pc[o] = "idle"
                                          /\ pc'[o] = pc[o] /\ job'[o] = job[o],
             VersionFilesPresent', RemovedProjectHasNoLiveVersion', Progress(self)'
      PROVE  SerialInv'
  <2> USE <1>SerialFrame
  <2>1. \A o \in Procs : o # self => Progress(o)'
    <3> SUFFICES ASSUME NEW o \in Procs, o # self PROVE Progress(o)'
      OBVIOUS
    <3>1. job[o] = NoJob
      BY DEF SerialInv, Progress, IndexProgress
    <3> QED
      BY <3>1, <1>IdleProgress
  <2>2. Exclusive'
    BY DEF Exclusive
  <2> QED
    BY <2>1, <2>2 DEF SerialInv
<1>SerialReturn.
      ASSUME ControlInv, SerialInv, NEW self \in Procs, NEW result, Return(self, result),
             \A o \in Procs : o # self => pc[o] = "idle",
             VersionFilesPresent', RemovedProjectHasNoLiveVersion'
      PROVE  SerialInv'
  <2> USE <1>SerialReturn
  <2>1. pc'[self] = "idle" /\ job'[self] = NoJob
    BY DEF ControlInv, Return, Goto
  <2>2. \A o \in Procs : o # self => pc'[o] = pc[o] /\ job'[o] = job[o]
    BY DEF ControlInv, Return, Goto
  <2> QED
    BY <2>1, <2>2, <1>IdleProgress, <1>SerialFrame
<1>SerialContinue.
      ASSUME ControlInv, SerialInv, NEW self \in Procs, NEW label, NEW locals,
             Continue(self, label, locals),
             \A o \in Procs : o # self => pc[o] = "idle",
             VersionFilesPresent', RemovedProjectHasNoLiveVersion',
             Progress(self)'
      PROVE  SerialInv'
  <2> USE <1>SerialContinue
  <2>1. \A o \in Procs : o # self => pc'[o] = pc[o] /\ job'[o] = job[o]
    BY DEF ControlInv, Continue, Goto
  <2> QED
    BY <2>1, <1>SerialFrame
\* A step that leaves the files alone leaves what is said of them alone.
<1>SameDisk.
      ASSUME SerialInv, UNCHANGED disk
      PROVE  VersionFilesPresent' /\ RemovedProjectHasNoLiveVersion'
  BY <1>SameDisk DEF SerialInv, VersionFilesPresent, RemovedProjectHasNoLiveVersion, disk
\* What the opening of versions.json changes: a file is created, empty.
<1>OpenedKeeps.
      ASSUME BaseInv, SerialInv, NEW p \in Projects,
             versions' = [versions EXCEPT ![p] = OpenedVersions(p)],
             UNCHANGED <<index, dirs, files>>
      PROVE  /\ VersionFilesPresent' /\ RemovedProjectHasNoLiveVersion'
             /\ versions'[p].val = OpenedVersions(p).val
             /\ \A q \in Projects : versions'[q].val \in {versions[q].val, <<>>}
             /\ \A q \in Projects : NoLive(versions[q].val) => NoLive(versions'[q].val)
  <2> USE <1>OpenedKeeps
  <2>1. versions'[p] = OpenedVersions(p)
    BY DEF BaseInv, DiskInv
  <2>2. \A q \in Projects : versions'[q].val \in {versions[q].val, <<>>}
    BY DEF BaseInv, DiskInv, OpenedVersions, Blank
  <2>3. VersionFilesPresent'
    BY SMT, <2>2 DEF SerialInv, VersionFilesPresent
  <2>4. RemovedProjectHasNoLiveVersion'
    BY SMT, <2>2 DEF SerialInv, RemovedProjectHasNoLiveVersion
  <2>5. \A q \in Projects : NoLive(versions[q].val) => NoLive(versions'[q].val)
    BY SMT, <2>2 DEF NoLive
  <2> QED
    BY <2>1, <2>2, <2>3, <2>4, <2>5
<1>SerialStarts.
      ASSUME BaseInv, SerialInv, NEW self \in Procs, SerialStart(self)
      PROVE  SerialInv'
  <2> USE <1>SerialStarts
  <2>1. \A o \in Procs : o # self => pc[o] = "idle"
    BY DEF SerialStart, AllIdle
  <2>2. ASSUME NEW locals, Begin(self, locals), locals.vers = <<>>,
               locals.idx = NoProjects, locals.next = 1
        PROVE  SerialInv'
    <3>1. Continue(self, "openIndex", locals) /\ UNCHANGED disk
      BY <2>2 DEF Begin
    <3>2. pc'[self] = "openIndex" /\ job'[self] = locals
      BY <3>1, ContinueValues DEF BaseInv
    <3>3. StepsOfCommand(self)'
      BY <2>2, <3>2 DEF StepsOfCommand, FileNames
    <3>4. WritableList(self)' /\ AddProgress(self)' /\ RemoveProgress(self)'
      BY SMTT(40), <2>2, <3>2 DEF WritableList, AddProgress, RemoveProgress, FileNames
    <3>5. IndexProgress(self)'
      BY SMT, <2>2, <3>2 DEF IndexProgress, NoProjects, NoLive
    <3>6. Progress(self)'
      BY <3>3, <3>4, <3>5 DEF Progress
    <3> QED
      BY <2>1, <3>1, <3>6, <1>SameDisk, <1>SerialContinue DEF BaseInv
  <2>3. CASE BeginInit(self)
    <3>1. CASE Return(self, "error") /\ UNCHANGED index
      <4>1. UNCHANGED disk
        BY <2>3, <3>1 DEF BeginInit, disk
      <4> QED
        BY <2>1, <3>1, <4>1, <1>SameDisk, <1>SerialReturn DEF BaseInv
    <3>2. CASE index' = Blank("empty", NoProjects) /\ Continue(self, "writeIndex", NoJob)
      <4>1. pc'[self] = "writeIndex" /\ job'[self] = NoJob
        BY <3>2, ContinueValues DEF BaseInv
      <4>2. UNCHANGED <<versions, dirs, files>>
        BY <2>3 DEF BeginInit
      <4>3. VersionFilesPresent' /\ RemovedProjectHasNoLiveVersion'
        BY <3>2, <4>2 DEF SerialInv, VersionFilesPresent, RemovedProjectHasNoLiveVersion,
                          Blank, NoProjects
      <4>4. Progress(self)'
        BY SMT, <4>1, NoJobFields DEF Progress, StepsOfCommand, WritableList, AddProgress,
           RemoveProgress, IndexProgress, FileNames, NoProjects, Removing
      <4> QED
        BY <2>1, <3>2, <4>3, <4>4, <1>SerialContinue DEF BaseInv
    <3> QED
      BY <2>3, <3>1, <3>2 DEF BeginInit
  <2>4. CASE \E p \in Projects, v \in Versions, b \in Builds : BeginAdd(self, p, v, b)
    BY <2>2, <2>4 DEF BeginAdd, NoJob
  <2>5. CASE \E p \in Projects, v \in Versions :
                BeginYank(self, p, v) \/ BeginRemoveVersion(self, p, v)
    BY <2>2, <2>5 DEF BeginYank, BeginRemoveVersion, NoJob
  <2>6. CASE \E p \in Projects : BeginRemoveProject(self, p)
    BY <2>2, <2>6 DEF BeginRemoveProject, NoJob
  <2> QED
    BY <2>3, <2>4, <2>5, <2>6 DEF SerialStart, Start, StartPublish, StartRemove
<1>SerialOpenIndex.
      ASSUME BaseInv, SerialInv, NEW self \in Procs,
             \A o \in Procs : o # self => pc[o] = "idle",
             AddOpenIndex(self) \/ YankOpenIndex(self) \/ RemoveOpenIndex(self)
      PROVE  SerialInv'
  <2> USE <1>SerialOpenIndex
  <2> DEFINE j == job[self]
  <2>1. UNCHANGED disk /\ pc[self] = "openIndex"
    BY DEF AddOpenIndex, YankOpenIndex, RemoveOpenIndex
  <2>2. VersionFilesPresent' /\ RemovedProjectHasNoLiveVersion'
    BY <2>1, <1>SameDisk
  <2>3. j \in Jobs /\ j.prj \in Projects /\ index.val \in IndexJson
    BY JobFields DEF BaseInv, DiskInv
  <2>4. Progress(self)
    BY DEF SerialInv
  <2>5. ASSUME NEW locals, Continue(self, "openVersions", locals),
               locals.op = j.op, locals.prj = j.prj, locals.ver = j.ver,
               locals.build = j.build, locals.vers = j.vers, locals.next = j.next,
               j.op = "add" => locals.idx[j.prj] # "removed" /\ index.val[j.prj] # "removed",
               \A q \in Projects : locals.idx[q] = "removed" =>
                  NoLive(versions[q].val) \/ (q = j.prj /\ Removing(j))
        PROVE  SerialInv'
    <3>1. pc'[self] = "openVersions" /\ job'[self] = locals
      BY <2>5, ContinueValues DEF BaseInv
    <3>2. StepsOfCommand(self)'
      BY ZenonT(60), <2>1, <2>4, <2>5, <3>1 DEF Progress, StepsOfCommand, FileNames
    <3>3. WritableList(self)'
      <4> SUFFICES ASSUME NEW i \in DOMAIN j.vers, Live(j.vers[i])
                   PROVE  /\ <<j.prj, j.vers[i].version>> \in dirs'
                          /\ \A f \in FileNames :
                                files'[<<j.prj, j.vers[i].version, f>>] = j.vers[i].build
        BY ZenonT(60), <2>5, <3>1 DEF WritableList, Present, FileNames
      <4>1. Present(j.prj, j.vers[i])
        BY <2>1, <2>4 DEF Progress, WritableList, FileNames
      <4> QED
        BY <2>1, <4>1 DEF Present, disk
    <3>4. AddProgress(self)'
      BY <3>1 DEF AddProgress, FileNames
    <3>5. RemoveProgress(self)'
      BY <2>4, <2>5, <3>1 DEF Progress, RemoveProgress
    <3>6. IndexProgress(self)'
      BY <2>1, <2>4, <2>5, <3>1 DEF Progress, IndexProgress, Removing, disk
    <3>7. Progress(self)'
      BY <3>2, <3>3, <3>4, <3>5, <3>6 DEF Progress
    <3> QED
      BY <2>2, <2>5, <3>7, <1>SerialContinue DEF BaseInv
  <2>6. CASE \E r : Return(self, r)
    BY <2>2, <2>6, <1>SerialReturn DEF BaseInv
  <2>7. CASE ~(\E r : Return(self, r)) /\ AddOpenIndex(self)
    <3> DEFINE idx == [index.val EXCEPT ![j.prj] = "available"]
               new == (index.val[j.prj] = "unlisted")
               locals == [j EXCEPT !.idx = idx, !.isNew = new]
    <3>1. /\ index.val[j.prj] # "removed" /\ j.op = "add"
          /\ Continue(self, "openVersions", locals)
      BY <2>7 DEF AddOpenIndex
    <3>2. idx[j.prj] # "removed" /\ \A q \in Projects : idx[q] = "removed" => NoLive(versions[q].val)
      BY <2>3, <3>1 DEF SerialInv, RemovedProjectHasNoLiveVersion, NoLive, Live, IndexJson
    <3> HIDE DEF idx, new
    <3>3. /\ locals.op = j.op /\ locals.prj = j.prj /\ locals.ver = j.ver /\ locals.idx = idx
          /\ locals.build = j.build /\ locals.vers = j.vers /\ locals.next = j.next
      BY <2>3 DEF Jobs
    <3> HIDE DEF locals
    <3> QED
      BY <2>5, <3>1, <3>2, <3>3
  <2>8. CASE ~(\E r : Return(self, r)) /\ YankOpenIndex(self)
    <3>1. Continue(self, "openVersions", j) /\ j.op = "yank"
      BY <2>8 DEF YankOpenIndex
    <3>2. \A q \in Projects : j.idx[q] = "removed" => NoLive(versions[q].val)
      BY <2>4, <3>1 DEF Progress, IndexProgress, Removing
    <3> QED
      BY <2>5, <3>1, <3>2
  <2>9. CASE ~(\E r : Return(self, r)) /\ RemoveOpenIndex(self)
    <3> DEFINE idx == [index.val EXCEPT ![j.prj] = "removed"]
               locals == [j EXCEPT !.idx = idx]
    <3>1. /\ Removing(j) /\ j.op # "add"
          /\ Continue(self, "openVersions", locals)
      BY <2>9 DEF RemoveOpenIndex, Removing
    <3>2. \A q \in Projects : idx[q] = "removed" => NoLive(versions[q].val) \/ q = j.prj
      BY <2>3, <3>1 DEF SerialInv, RemovedProjectHasNoLiveVersion, NoLive, Live, IndexJson
    <3> HIDE DEF idx
    <3>3. /\ locals.op = j.op /\ locals.prj = j.prj /\ locals.ver = j.ver /\ locals.idx = idx
          /\ locals.build = j.build /\ locals.vers = j.vers /\ locals.next = j.next
      BY <2>3 DEF Jobs
    <3> HIDE DEF locals
    <3> QED
      BY <2>5, <3>1, <3>2, <3>3
  <2> QED
    BY <2>6, <2>7, <2>8, <2>9
<1>SerialOpenVersions.
      ASSUME BaseInv, SerialInv, NEW self \in Procs,
             \A o \in Procs : o # self => pc[o] = "idle",
             AddOpenVersions(self) \/ YankOpenVersions(self) \/ RemoveOpenVersions(self)
      PROVE  SerialInv'
  <2> USE <1>SerialOpenVersions
  <2> DEFINE j == job[self]
             f == OpenedVersions(j.prj)
  <2>1. /\ pc[self] = "openVersions"
        /\ versions' = [versions EXCEPT ![j.prj] = f] /\ UNCHANGED <<index, dirs, files>>
    BY DEF AddOpenVersions, YankOpenVersions, RemoveOpenVersions
  <2>2. j \in Jobs /\ j.prj \in Projects
    BY JobFields DEF BaseInv
  <2>3. f.val \in VersionsJson
    BY <2>2, OpenedType DEF BaseInv
  <2>4. /\ VersionFilesPresent' /\ RemovedProjectHasNoLiveVersion'
        /\ versions'[j.prj].val = f.val
        /\ \A q \in Projects : versions'[q].val \in {versions[q].val, <<>>}
        /\ \A q \in Projects : NoLive(versions[q].val) => NoLive(versions'[q].val)
    BY <2>1, <2>2, <1>OpenedKeeps
  <2>5. Progress(self)
    BY DEF SerialInv
  <2> HIDE DEF f
  <2>6. CASE \E r : Return(self, r)
    BY <2>4, <2>6, <1>SerialReturn DEF BaseInv
  <2>7. ASSUME NEW label, NEW t, Continue(self, label, [j EXCEPT !.vers = t]),
               \/ label = "mkdir" /\ j.op = "add"
               \/ label = "truncVersions" /\ j.op = "yank" /\ index.val[j.prj] # "removed"
               \/ label = "scan" /\ Removing(j) /\ t = f.val,
               \A i \in DOMAIN t : Live(t[i]) =>
                  IF label = "mkdir" /\ t[i].version = j.ver THEN t[i].build = j.build
                  ELSE Present(j.prj, t[i])
        PROVE  SerialInv'
    <3> DEFINE locals == [j EXCEPT !.vers = t]
    <3>1. /\ locals.op = j.op /\ locals.prj = j.prj /\ locals.ver = j.ver /\ locals.idx = j.idx
          /\ locals.build = j.build /\ locals.vers = t /\ locals.next = j.next
      BY <2>2 DEF Jobs
    <3>2. pc'[self] = label /\ job'[self] = locals
      BY <2>7, ContinueValues DEF BaseInv
    <3> HIDE DEF locals
    <3>3. StepsOfCommand(self)'
      BY ZenonT(60), <2>7, <3>1, <3>2 DEF StepsOfCommand, FileNames, Removing
    <3>4. WritableList(self)'
      BY SMTT(40), <2>1, <2>7, <3>1, <3>2 DEF WritableList, FileNames, Present
    <3>5. AddProgress(self)'
      BY <2>7, <3>2 DEF AddProgress, FileNames
    <3>6. RemoveProgress(self)'
      <4>1. j.next = 1
        BY <2>1, <2>5 DEF Progress, StepsOfCommand
      <4>2. CASE label # "scan"
        BY <2>7, <3>1, <3>2, <4>2 DEF RemoveProgress, Removing
      <4>3. CASE label = "scan"
        <5>1. t = f.val
          BY <2>7, <4>3
        <5>2. \A i \in DOMAIN t : ~(i < 1)
          BY SMT, <2>3, <5>1, ListFacts
        <5> QED
          BY <2>4, <3>1, <3>2, <4>1, <4>3, <5>1, <5>2 DEF RemoveProgress
      <4> QED
        BY <4>2, <4>3
    <3>7. IndexProgress(self)'
      <4>1. \A q \in Projects : j.idx[q] = "removed" =>
              NoLive(versions'[q].val) \/ (q = j.prj /\ Removing(j))
        BY <2>1, <2>4, <2>5 DEF Progress, IndexProgress
      <4>2. j.op = "add" => j.idx[j.prj] # "removed" /\ index'.val[j.prj] # "removed"
        BY <2>1, <2>5 DEF Progress, IndexProgress
      <4>3. label = "scan" /\ index'.val[j.prj] = "removed" => NoLive(t)
        BY SMTT(40), <2>2, <2>4, <2>7 DEF RemovedProjectHasNoLiveVersion, NoLive, Live
      <4>4. index' = index
        BY ZenonT(60), <2>1
      <4> QED
        BY ZenonT(60), <2>7, <3>1, <3>2, <4>1, <4>2, <4>3, <4>4 DEF IndexProgress, Removing
    <3>8. Progress(self)'
      BY <3>3, <3>4, <3>5, <3>6, <3>7 DEF Progress
    <3> QED
      BY <2>4, <2>7, <3>8, <1>SerialContinue DEF BaseInv
  <2>8. \A i \in DOMAIN f.val : Live(f.val[i]) => Present(j.prj, f.val[i])
    BY SMT, <2>1, <2>2, <2>4 DEF VersionFilesPresent, Present, Live
  <2>9. CASE ~(\E r : Return(self, r)) /\ AddOpenVersions(self)
    <3> DEFINE s == SortedDescending(f.val)
               e == [version |-> j.ver, status |-> "available", build |-> j.build]
               t == InsertAt(s, InsertPosition(s, j.ver), e)
    <3>1. /\ ~Listed(s, j.ver) /\ j.op = "add"
          /\ Continue(self, "mkdir", [j EXCEPT !.vers = t])
      BY <2>9 DEF AddOpenVersions, f
    <3>2. \A i \in DOMAIN t :
              t[i] = e \/ (t[i].version # j.ver /\ \E k \in DOMAIN f.val : t[i] = f.val[k])
      BY <3>1, AddedList DEF f
    <3>3. e.version = j.ver /\ e.build = j.build
      OBVIOUS
    <3> HIDE DEF t, e
    <3>4. \A i \in DOMAIN t : Live(t[i]) =>
              IF t[i].version = j.ver THEN t[i].build = j.build ELSE Present(j.prj, t[i])
      BY <2>8, <3>2, <3>3
    <3> QED
      BY ZenonT(40), <2>7, <3>1, <3>4
  <2>10. CASE ~(\E r : Return(self, r)) /\ YankOpenVersions(self)
    <3>1. PICK i \in DOMAIN f.val :
             /\ f.val[i].status = "available"
             /\ Continue(self, "truncVersions",
                    [j EXCEPT !.vers = SetStatus(f.val, i, "yanked")])
      BY <2>10 DEF YankOpenVersions, f
    <3> DEFINE t == SetStatus(f.val, i, "yanked")
    <3>2. /\ DOMAIN t = DOMAIN f.val
          /\ \A k \in DOMAIN f.val : /\ t[k].version = f.val[k].version
                                     /\ t[k].build = f.val[k].build
                                     /\ k # i => t[k] = f.val[k]
      BY <2>3, <3>1, RestatusedList DEF VersionStatus
    <3> HIDE DEF t
    <3>3. \A k \in DOMAIN t : Live(t[k]) => Present(j.prj, t[k])
      <4> SUFFICES ASSUME NEW k \in DOMAIN t, Live(t[k]) PROVE Present(j.prj, t[k])
        OBVIOUS
      <4>1. Live(f.val[k])
        BY <3>1, <3>2 DEF Live
      <4>2. Present(j.prj, f.val[k])
        BY <2>8, <3>2, <4>1
      <4> QED
        BY <3>2, <4>2 DEF Present
    <3>4. index.val[j.prj] # "removed"
      BY <2>1, <2>2, <2>4, <3>1 DEF RemovedProjectHasNoLiveVersion
    <3>5. j.op = "yank"
      BY <2>10 DEF YankOpenVersions
    <3> QED
      BY SMT, <2>7, <3>1, <3>3, <3>4, <3>5 DEF t
  <2>11. CASE ~(\E r : Return(self, r)) /\ RemoveOpenVersions(self)
    <3>1. Continue(self, "scan", [j EXCEPT !.vers = f.val]) /\ Removing(j)
      BY <2>11 DEF RemoveOpenVersions, Removing, f
    <3> QED
      BY SMT, <2>7, <2>8, <3>1
  <2> QED
    BY <2>6, <2>9, <2>10, <2>11
<1>SerialMkdir.
      ASSUME BaseInv, SerialInv, NEW self \in Procs,
             \A o \in Procs : o # self => pc[o] = "idle", AddMkdir(self)
      PROVE  SerialInv'
  <2> USE <1>SerialMkdir
  <2> DEFINE j == job[self]
             d == <<j.prj, j.ver>>
  <2>1. pc[self] = "mkdir" /\ UNCHANGED <<index, versions, files>> /\ dirs \subseteq dirs'
    BY DEF AddMkdir
  <2>2. VersionFilesPresent' /\ RemovedProjectHasNoLiveVersion'
    BY <2>1 DEF SerialInv, VersionFilesPresent, RemovedProjectHasNoLiveVersion
  <2>3. CASE Return(self, "error")
    BY <2>2, <2>3, <1>SerialReturn DEF BaseInv
  <2>4. CASE ~Return(self, "error")
    <3>1. d \notin dirs /\ d \in dirs' /\ Continue(self, "kpar", j)
      BY <2>4 DEF AddMkdir
    <3>2. pc'[self] = "kpar" /\ job'[self] = j
      BY <3>1, ContinueValues DEF BaseInv
    <3>3. Progress(self) /\ j.prj \in Projects
      BY JobFields DEF SerialInv, BaseInv
    <3>4. StepsOfCommand(self)'
      BY <2>1, <3>2, <3>3 DEF Progress, StepsOfCommand, FileNames
    <3>5. WritableList(self)'
      BY ZenonT(60), <2>1, <3>2, <3>3 DEF Progress, WritableList, FileNames, Present
    <3>6. AddProgress(self)'
      <4>1. \A i \in DOMAIN versions[j.prj].val :
               versions[j.prj].val[i].version = j.ver => ~Live(versions[j.prj].val[i])
        BY <3>1, <3>3 DEF SerialInv, VersionFilesPresent, Live
      <4> QED
        BY <2>1, <3>1, <3>2, <4>1 DEF AddProgress
    <3>7. RemoveProgress(self)'
      BY <2>1, <3>2, <3>3 DEF Progress, StepsOfCommand, RemoveProgress
    <3>8. IndexProgress(self)'
      BY <2>1, <3>2, <3>3 DEF Progress, StepsOfCommand, IndexProgress, Removing
    <3>9. Progress(self)'
      BY <3>4, <3>5, <3>6, <3>7, <3>8 DEF Progress
    <3> QED
      BY <2>2, <3>1, <3>9, <1>SerialContinue DEF BaseInv
  <2> QED
    BY <2>3, <2>4
\* While `add' is at its files, no live entry describes what it writes.
<1>AddFilesUnlisted.
      ASSUME BaseInv, SerialInv, NEW self \in Procs, pc[self] \in FileNames,
             UNCHANGED <<index, versions>>,
             dirs \ {<<job[self].prj, job[self].ver>>} \subseteq dirs',
             \A p \in Projects, v \in Versions, f \in FileNames :
                <<p, v>> # <<job[self].prj, job[self].ver>> =>
                   files'[<<p, v, f>>] = files[<<p, v, f>>]
      PROVE  VersionFilesPresent' /\ RemovedProjectHasNoLiveVersion'
  <2> USE <1>AddFilesUnlisted
  <2> DEFINE j == job[self]
  <2>1. RemovedProjectHasNoLiveVersion'
    BY DEF SerialInv, RemovedProjectHasNoLiveVersion
  <2>2. VersionFilesPresent'
    <3> SUFFICES ASSUME NEW p \in Projects, NEW i \in DOMAIN versions[p].val,
                        versions[p].val[i].status # "removed"
                 PROVE  LET e == versions[p].val[i] IN
                        /\ <<p, e.version>> \in dirs'
                        /\ \A f \in FileNames : files'[<<p, e.version, f>>] = e.build
      BY ZenonT(60) DEF VersionFilesPresent
    <3> DEFINE e == versions[p].val[i]
    <3>1. AddProgress(self)
      BY DEF SerialInv, Progress
    <3>2. <<p, e.version>> # <<j.prj, j.ver>>
      BY <3>1 DEF AddProgress, Live
    <3>3. e.version \in Versions
      BY ListFacts DEF BaseInv, DiskInv, VersionEntry
    <3>4. <<p, e.version>> \in dirs /\ \A f \in FileNames : files[<<p, e.version, f>>] = e.build
      BY DEF SerialInv, VersionFilesPresent
    <3> QED
      BY <3>2, <3>3, <3>4
  <2> QED
    BY <2>1, <2>2
<1>SerialWriteFile.
      ASSUME BaseInv, SerialInv, NEW self \in Procs,
             \A o \in Procs : o # self => pc[o] = "idle", AddWriteFile(self)
      PROVE  SerialInv'
  <2> USE <1>SerialWriteFile
  <2> DEFINE j == job[self]
             d == <<j.prj, j.ver>>
  <2>1. /\ pc[self] \in FileNames /\ UNCHANGED <<index, versions, dirs>>
        /\ j.prj \in Projects /\ j.ver \in Versions /\ j.build \in Builds
        /\ j.vers \in VersionsJson /\ Progress(self)
        /\ files \in [Projects \X Versions \X FileNames -> FileContents]
    BY JobFields DEF AddWriteFile, BaseInv, DiskInv, SerialInv
  <2>2. CASE d \notin dirs
    <3>1. UNCHANGED disk /\ Return(self, "cleanupFailed")
      BY <2>2 DEF AddWriteFile, disk
    <3> QED
      BY <3>1, <1>SameDisk, <1>SerialReturn DEF BaseInv
  <2>3. CASE d \in dirs
    <3>1. /\ files' = [files EXCEPT ![<<j.prj, j.ver, pc[self]>>] = j.build]
          /\ Continue(self, FileStep[pc[self]], j)
      BY <2>3 DEF AddWriteFile
    <3>2. /\ files'[<<j.prj, j.ver, pc[self]>>] = j.build
          /\ \A p \in Projects, v \in Versions, f \in FileNames :
                <<p, v, f>> # <<j.prj, j.ver, pc[self]>> =>
                   files'[<<p, v, f>>] = files[<<p, v, f>>]
      BY <2>1, <3>1
    <3>3. VersionFilesPresent' /\ RemovedProjectHasNoLiveVersion'
      BY ZenonT(60), <2>1, <3>2, <1>AddFilesUnlisted
    <3>4. pc'[self] = FileStep[pc[self]] /\ job'[self] = j
      BY <3>1, ContinueValues DEF BaseInv
    <3>5. j.op = "add"
      BY <2>1 DEF Progress, StepsOfCommand
    <3>6. pc'[self] \in {"info", "meta", "truncVersions"}
      BY SMT, <2>1, <3>4 DEF FileNames, FileStep
    <3>7. StepsOfCommand(self)'
      BY <3>4, <3>5, <3>6 DEF StepsOfCommand, FileNames
    <3>8. /\ pc'[self] = "info" => pc[self] = "kpar"
          /\ pc'[self] = "meta" => pc[self] = "info"
          /\ pc'[self] = "truncVersions" => pc[self] = "meta"
      BY SMT, <2>1, <3>4 DEF FileNames, FileStep
    <3>9. /\ files'[<<j.prj, j.ver, "kpar">>] = j.build
          /\ pc'[self] \in {"meta", "truncVersions"} =>
                files'[<<j.prj, j.ver, "info">>] = j.build
          /\ pc'[self] = "truncVersions" => files'[<<j.prj, j.ver, "meta">>] = j.build
      BY <2>1, <3>2, <3>6, <3>8 DEF Progress, AddProgress, FileNames
    <3>10. WritableList(self)'
      <4> SUFFICES ASSUME NEW i \in DOMAIN j.vers, Live(j.vers[i])
                   PROVE  IF pc'[self] \in {"mkdir"} \cup FileNames /\ j.vers[i].version = j.ver
                          THEN j.vers[i].build = j.build
                          ELSE /\ <<j.prj, j.vers[i].version>> \in dirs'
                               /\ \A f \in FileNames :
                                     files'[<<j.prj, j.vers[i].version, f>>] = j.vers[i].build
        BY ZenonT(60), <3>4 DEF WritableList, Present
      <4>1. j.vers[i].version \in Versions
        BY ZenonT(60), <2>1, ListFacts DEF VersionEntry
      <4>2. CASE j.vers[i].version = j.ver
        <5>1. j.vers[i].build = j.build
          BY <2>1, <4>2 DEF Progress, WritableList
        <5> QED
          BY <2>1, <2>3, <3>6, <3>9, <4>2, <5>1 DEF FileNames
      <4>3. CASE j.vers[i].version # j.ver
        <5>1. Present(j.prj, j.vers[i])
          BY <2>1, <4>3 DEF Progress, WritableList
        <5> QED
          BY <2>1, <3>2, <4>1, <4>3, <5>1 DEF Present
      <4> QED
        BY <4>2, <4>3
    <3>11. AddProgress(self)'
      BY <2>1, <2>3, <3>4, <3>6, <3>9 DEF Progress, AddProgress, FileNames
    <3>12. RemoveProgress(self)'
      BY <3>4, <3>5, <3>6 DEF RemoveProgress, Removing
    <3>13. IndexProgress(self)'
      <4>1. pc[self] \notin {"idle", "openIndex"}
        BY <2>1 DEF FileNames
      <4> QED
        BY <2>1, <3>4, <3>5, <3>6, <4>1 DEF Progress, IndexProgress, Removing
    <3>14. Progress(self)'
      BY <3>7, <3>10, <3>11, <3>12, <3>13 DEF Progress
    <3> QED
      BY <3>1, <3>3, <3>14, <1>SerialContinue DEF BaseInv
  <2> QED
    BY <2>2, <2>3
<1>SerialAddFaults.
      ASSUME BaseInv, SerialInv, NEW self \in Procs,
             \A o \in Procs : o # self => pc[o] = "idle",
             AddWriteFileFails(self) \/ AddKilledInWriteFile(self)
      PROVE  SerialInv'
  <2> USE <1>SerialAddFaults
  <2> DEFINE j == job[self]
             d == <<j.prj, j.ver>>
  <2>1. /\ pc[self] \in FileNames /\ UNCHANGED <<index, versions>>
        /\ j.prj \in Projects /\ j.ver \in Versions
        /\ files \in [Projects \X Versions \X FileNames -> FileContents]
    BY JobFields DEF AddWriteFileFails, AddKilledInWriteFile, BaseInv, DiskInv
  <2>2. dirs \ {d} \subseteq dirs'
    BY DEF AddWriteFileFails, AddKilledInWriteFile
  <2>3. \/ files' = files
        \/ files' = [files EXCEPT ![<<j.prj, j.ver, pc[self]>>] = "partial"]
    BY DEF AddWriteFileFails, AddKilledInWriteFile
  <2>4. \A p \in Projects, v \in Versions, f \in FileNames :
           <<p, v>> # d => files'[<<p, v, f>>] = files[<<p, v, f>>]
    BY <2>1, <2>3
  <2>5. VersionFilesPresent' /\ RemovedProjectHasNoLiveVersion'
    BY <2>1, <2>2, <2>4, <1>AddFilesUnlisted
  <2>6. \E r : Return(self, r)
    BY DEF AddWriteFileFails, AddKilledInWriteFile
  <2> QED
    BY <2>5, <2>6, <1>SerialReturn DEF BaseInv
<1>SerialRemoveScan.
      ASSUME BaseInv, SerialInv, NEW self \in Procs,
             \A o \in Procs : o # self => pc[o] = "idle", RemoveScan(self)
      PROVE  SerialInv'
  <2> USE <1>SerialRemoveScan
  <2> DEFINE j == job[self]
             todo == {i \in j.next..Len(j.vers) : ToRemove(j, i)}
  <2>1. pc[self] = "scan" /\ UNCHANGED disk
    BY DEF RemoveScan
  <2>2. VersionFilesPresent' /\ RemovedProjectHasNoLiveVersion'
    BY <2>1, <1>SameDisk
  <2>3. /\ j \in Jobs /\ j.vers \in VersionsJson /\ StrictlyDescending(j.vers)
        /\ j.next \in Nat \ {0} /\ j.prj \in Projects /\ Progress(self)
    BY JobFields DEF BaseInv, SerialInv
  <2>4. Removing(j)
    BY <2>1, <2>3 DEF Progress, StepsOfCommand
  <2>5. DOMAIN j.vers = 1..Len(j.vers) /\ Len(j.vers) \in Nat
    BY <2>3, ListFacts
  <2>6. CASE \E r : Return(self, r)
    BY <2>2, <2>6, <1>SerialReturn DEF BaseInv
  <2>7. CASE todo = {} /\ j.op = "removeProject" /\ Continue(self, "truncIndex", j)
    <3>1. pc'[self] = "truncIndex" /\ job'[self] = j
      BY <2>7, ContinueValues DEF BaseInv
    <3>2. NoLive(j.vers)
      <4> SUFFICES ASSUME NEW i \in DOMAIN j.vers, Live(j.vers[i]) PROVE FALSE
        BY DEF NoLive
      <4>1. ~(i < j.next)
        BY <2>3, <2>7 DEF Progress, RemoveProgress
      <4>2. i \in j.next..Len(j.vers)
        BY SMT, <2>3, <2>5, <4>1
      <4>3. ToRemove(j, i)
        BY <2>7 DEF ToRemove, Live
      <4> QED
        BY <2>7, <4>2, <4>3
    <3>3. NoLive(versions[j.prj].val)
      BY <2>1, <2>3, <3>2 DEF Progress, RemoveProgress, NoLive
    <3>4. StepsOfCommand(self)' /\ AddProgress(self)'
      BY <2>7, <3>1 DEF StepsOfCommand, AddProgress, FileNames
    <3>5. WritableList(self)'
      BY ZenonT(60), <2>1, <2>3, <3>1 DEF Progress, WritableList, FileNames, Present, disk
    <3>6. RemoveProgress(self)'
      BY <2>3, <3>1 DEF Progress, RemoveProgress
    <3>7. IndexProgress(self)'
      BY <2>1, <2>3, <2>7, <3>1, <3>2, <3>3 DEF Progress, IndexProgress, disk
    <3>8. Progress(self)'
      BY <3>4, <3>5, <3>6, <3>7 DEF Progress
    <3> QED
      BY <2>2, <2>7, <3>8, <1>SerialContinue DEF BaseInv
  <2>8. CASE \E i \in todo :
               /\ \A k \in todo : i <= k
               /\ Continue(self, "truncVersions",
                    [j EXCEPT !.vers = SetStatus(j.vers, i, "removed"),
                              !.ver = j.vers[i].version,
                              !.next = i + 1])
    <3>1. PICK i \in todo :
               /\ \A k \in todo : i <= k
               /\ Continue(self, "truncVersions",
                    [j EXCEPT !.vers = SetStatus(j.vers, i, "removed"),
                              !.ver = j.vers[i].version,
                              !.next = i + 1])
      BY <2>8
    <3> DEFINE t == SetStatus(j.vers, i, "removed")
               w == j.vers[i].version
               locals == [j EXCEPT !.vers = t, !.ver = w, !.next = i + 1]
    <3>2. i \in DOMAIN j.vers /\ i \in Nat
      BY SMTT(40), <2>3, <2>5
    <3>3. /\ DOMAIN t = DOMAIN j.vers /\ t[i].status = "removed"
          /\ \A k \in DOMAIN j.vers : /\ t[k].version = j.vers[k].version
                                      /\ t[k].build = j.vers[k].build
                                      /\ k # i => t[k] = j.vers[k]
      <4>1. "removed" \in VersionStatus
        BY DEF VersionStatus
      <4> HIDE DEF j
      <4> QED
        BY SMT, <2>3, <3>2, <4>1, RestatusedList
    <3>4. pc'[self] = "truncVersions" /\ job'[self] = locals
      BY <3>1, ContinueValues DEF BaseInv
    <3> HIDE DEF t, w
    <3>5. /\ locals.op = j.op /\ locals.prj = j.prj /\ locals.idx = j.idx
          /\ locals.vers = t /\ locals.ver = w /\ locals.next = i + 1
      BY <2>3 DEF Jobs
    <3>6. StepsOfCommand(self)' /\ AddProgress(self)'
      BY <2>4, <3>4, <3>5 DEF StepsOfCommand, AddProgress, FileNames, Removing
    <3>7. WritableList(self)'
      <4> SUFFICES ASSUME NEW k \in DOMAIN t, Live(t[k])
                   PROVE  /\ <<j.prj, t[k].version>> \in dirs
                          /\ \A f \in FileNames : files[<<j.prj, t[k].version, f>>] = t[k].build
        BY SMT, <2>1, <3>4, <3>5 DEF WritableList, FileNames, Present, disk
      <4>1. t[k] = j.vers[k] /\ k \in DOMAIN j.vers
        BY <3>3 DEF Live
      <4>2. Present(j.prj, j.vers[k])
        BY <2>1, <2>3, <4>1 DEF Progress, WritableList, FileNames
      <4> QED
        BY <4>1, <4>2 DEF Present
    <3>8. RemoveProgress(self)'
      <4>1. \A k \in DOMAIN t : t[k].version = w => ~Live(t[k])
        <5> SUFFICES ASSUME NEW k \in DOMAIN t, t[k].version = w PROVE k = i
          BY <3>3 DEF Live
        <5>1. j.vers[k].version = j.vers[i].version /\ k \in 1..Len(j.vers) /\ i \in 1..Len(j.vers)
          BY <2>5, <3>2, <3>3 DEF w
        <5>2. j.vers[k].version \in Nat
          BY <2>3, <5>1, ListFacts
        <5> QED
          BY SMTT(30), <2>3, <2>5, <5>1, <5>2 DEF StrictlyDescending
      <4>2. ASSUME j.op = "removeProject", NEW k \in DOMAIN t, k < i + 1 PROVE ~Live(t[k])
        <5>1. CASE k = i
          BY <3>3, <5>1 DEF Live
        <5>2. CASE k # i
          <6>1. k < i /\ k \in 1..Len(j.vers) /\ t[k] = j.vers[k]
            BY SMTT(40), <2>5, <3>2, <3>3, <4>2, <5>2
          <6>2. CASE k < j.next
            BY <2>3, <2>5, <4>2, <6>1, <6>2 DEF Progress, RemoveProgress
          <6>3. CASE ~(k < j.next)
            <7>1. k \in j.next..Len(j.vers) /\ ~(i <= k)
              BY SMTT(40), <2>3, <2>5, <3>2, <6>1, <6>3
            <7>2. ~ToRemove(j, k)
              BY <3>1, <7>1
            <7> QED
              BY <4>2, <6>1, <7>2 DEF ToRemove, Live
          <6> QED
            BY <6>2, <6>3
        <5> QED
          BY <5>1, <5>2
      <4> QED
        BY SMTT(40), <3>4, <3>5, <4>1, <4>2 DEF RemoveProgress
    <3>9. IndexProgress(self)'
      <4>1. NoLive(j.vers) => NoLive(t)
        BY <3>3 DEF NoLive, Live
      <4> QED
        BY ZenonT(60), <2>1, <2>3, <2>4, <3>4, <3>5, <4>1 DEF Progress, IndexProgress, Removing, disk
    <3>10. Progress(self)'
      BY <3>6, <3>7, <3>8, <3>9 DEF Progress
    <3>11. Continue(self, "truncVersions", locals)
      BY <3>1 DEF t, w
    <3> HIDE DEF locals
    <3> QED
      BY <2>2, <3>10, <3>11, <1>SerialContinue DEF BaseInv
  <2> QED
    BY ZenonT(40), <2>6, <2>7, <2>8 DEF RemoveScan
<1>SerialRemoveFiles.
      ASSUME BaseInv, SerialInv, NEW self \in Procs,
             \A o \in Procs : o # self => pc[o] = "idle", RemoveFile(self) \/ RemoveDir(self)
      PROVE  SerialInv'
  <2> USE <1>SerialRemoveFiles
  <2> DEFINE j == job[self]
             d == <<j.prj, j.ver>>
  <2>1. /\ pc[self] = "rmdir" /\ UNCHANGED <<index, versions>>
        /\ j \in Jobs /\ j.prj \in Projects /\ j.ver \in Versions /\ j.vers \in VersionsJson
        /\ files \in [Projects \X Versions \X FileNames -> FileContents]
        /\ Progress(self) /\ Removing(j)
    BY JobFields DEF RemoveFile, RemoveDir, BaseInv, DiskInv, SerialInv, Progress,
                            StepsOfCommand
  <2>2. dirs \ {d} \subseteq dirs'
    BY DEF RemoveFile, RemoveDir
  <2>3. \A p \in Projects, v \in Versions, f \in FileNames :
           <<p, v>> # d => files'[<<p, v, f>>] = files[<<p, v, f>>]
    <3>1. \/ files' = files
          \/ \E f \in FileNames : files' = [files EXCEPT ![<<j.prj, j.ver, f>>] = "none"]
      BY DEF RemoveFile, RemoveDir
    <3> QED
      BY <2>1, <3>1
  <2>4. RemovedProjectHasNoLiveVersion'
    BY <2>1 DEF SerialInv, RemovedProjectHasNoLiveVersion
  <2>5. VersionFilesPresent'
    <3> SUFFICES ASSUME NEW p \in Projects, NEW i \in DOMAIN versions[p].val,
                        versions[p].val[i].status # "removed"
                 PROVE  LET e == versions[p].val[i] IN
                        /\ <<p, e.version>> \in dirs'
                        /\ \A f \in FileNames : files'[<<p, e.version, f>>] = e.build
      BY <2>1 DEF VersionFilesPresent
    <3> DEFINE e == versions[p].val[i]
    <3>1. <<p, e.version>> # d
      BY <2>1 DEF Progress, RemoveProgress, Live
    <3>2. e.version \in Versions
      BY SMTT(40), ListFacts DEF BaseInv, DiskInv, VersionEntry
    <3>3. <<p, e.version>> \in dirs /\ \A f \in FileNames : files[<<p, e.version, f>>] = e.build
      BY DEF SerialInv, VersionFilesPresent
    <3> QED
      BY <2>2, <2>3, <3>1, <3>2, <3>3
  <2>6. CASE Return(self, "error")
    BY <2>4, <2>5, <2>6, <1>SerialReturn DEF BaseInv
  <2>7. CASE ~Return(self, "error")
    <3>1. /\ pc'[self] \in {"rmdir", "scan"} /\ job'[self] = j
          /\ \A o \in Procs : o # self => pc'[o] = pc[o] /\ job'[o] = job[o]
      BY <2>1, <2>7 DEF RemoveFile, RemoveDir, Continue, Goto, BaseInv, ControlInv
    <3>2. StepsOfCommand(self)' /\ AddProgress(self)'
      BY <2>1, <3>1 DEF StepsOfCommand, AddProgress, FileNames
    <3>3. WritableList(self)'
      <4> SUFFICES ASSUME NEW i \in DOMAIN j.vers, Live(j.vers[i])
                   PROVE  /\ <<j.prj, j.vers[i].version>> \in dirs'
                          /\ \A f \in FileNames :
                                files'[<<j.prj, j.vers[i].version, f>>] = j.vers[i].build
        BY ZenonT(60), <3>1 DEF WritableList, Present, FileNames
      <4>1. j.vers[i].version \in Versions
        BY <2>1, ListFacts DEF VersionEntry
      <4>2. j.vers[i].version # j.ver
        BY <2>1 DEF Progress, RemoveProgress
      <4>3. Present(j.prj, j.vers[i])
        BY <2>1, <4>2 DEF Progress, WritableList
      <4> QED
        BY <2>1, <2>2, <2>3, <4>1, <4>2, <4>3 DEF Present
    <3>4. RemoveProgress(self)'
      <4>1. /\ \A i \in DOMAIN j.vers : j.vers[i].version = j.ver => ~Live(j.vers[i])
            /\ j.op = "removeProject" => \A i \in DOMAIN j.vers : i < j.next => ~Live(j.vers[i])
        BY <2>1 DEF Progress, RemoveProgress
      <4>2. /\ \A i \in DOMAIN versions[j.prj].val :
                  versions[j.prj].val[i].version = j.ver => ~Live(versions[j.prj].val[i])
            /\ \A i \in DOMAIN versions[j.prj].val : Live(versions[j.prj].val[i]) =>
                  \E k \in DOMAIN j.vers : j.vers[k] = versions[j.prj].val[i]
        BY <2>1 DEF Progress, RemoveProgress
      <4>3. job'[self] = j /\ versions' = versions
        BY <2>1, <3>1
      <4> QED
        BY ZenonT(60), <4>1, <4>2, <4>3 DEF RemoveProgress
    <3>5. IndexProgress(self)'
      BY ZenonT(60), <2>1, <3>1 DEF Progress, IndexProgress
    <3>6. Progress(self)'
      BY <3>2, <3>3, <3>4, <3>5 DEF Progress
    <3> QED
      BY <2>4, <2>5, <3>1, <3>6, <1>SerialFrame
  <2> QED
    BY <2>6, <2>7
<1>SerialTruncVersions.
      ASSUME BaseInv, SerialInv, NEW self \in Procs,
             \A o \in Procs : o # self => pc[o] = "idle", TruncVersions(self)
      PROVE  SerialInv'
  <2> USE <1>SerialTruncVersions
  <2> DEFINE j == job[self]
  <2>1. /\ pc[self] = "truncVersions" /\ UNCHANGED <<index, dirs, files>>
        /\ versions' = [versions EXCEPT ![j.prj] = Blank("empty", <<>>)]
        /\ Continue(self, "writeVersions", j)
        /\ j.prj \in Projects /\ Progress(self)
    BY JobFields DEF TruncVersions, BaseInv, SerialInv
  <2>2. \A q \in Projects : versions'[q].val \in {versions[q].val, <<>>}
    BY <2>1 DEF BaseInv, DiskInv, Blank
  <2>3. VersionFilesPresent' /\ RemovedProjectHasNoLiveVersion'
    <3>1. VersionFilesPresent'
      <4> SUFFICES ASSUME NEW p \in Projects, NEW i \in DOMAIN versions'[p].val,
                          versions'[p].val[i].status # "removed"
                   PROVE  LET e == versions'[p].val[i] IN
                          /\ <<p, e.version>> \in dirs
                          /\ \A f \in FileNames : files[<<p, e.version, f>>] = e.build
        BY ZenonT(60), <2>1 DEF VersionFilesPresent
      <4>1. DOMAIN <<>> = {}
        BY SMT
      <4>2. versions'[p].val = versions[p].val
        BY <2>2, <4>1
      <4> QED
        BY <4>2 DEF SerialInv, VersionFilesPresent
    <3>2. RemovedProjectHasNoLiveVersion'
      BY SMT, <2>1, <2>2 DEF SerialInv, RemovedProjectHasNoLiveVersion
    <3> QED
      BY ZenonT(60), <3>1, <3>2
  <2>4. pc'[self] = "writeVersions" /\ job'[self] = j
    BY <2>1, ContinueValues DEF BaseInv
  <2>5. StepsOfCommand(self)' /\ AddProgress(self)'
    BY <2>1, <2>4 DEF Progress, StepsOfCommand, AddProgress, FileNames
  <2>6. WritableList(self)'
    BY <2>1, <2>4 DEF Progress, WritableList, FileNames, Present
  <2>7. RemoveProgress(self)'
    BY <2>1, <2>4 DEF Progress, RemoveProgress
  <2>8. IndexProgress(self)'
    <3>1. \A q \in Projects : NoLive(versions[q].val) => NoLive(versions'[q].val)
      BY SMT, <2>2 DEF NoLive
    <3> QED
      BY <2>1, <2>4, <3>1 DEF Progress, IndexProgress
  <2>9. Progress(self)'
    BY <2>5, <2>6, <2>7, <2>8 DEF Progress
  <2> QED
    BY <2>1, <2>3, <2>9, <1>SerialContinue DEF BaseInv
<1>SerialWriteVersions.
      ASSUME BaseInv, SerialInv, NEW self \in Procs,
             \A o \in Procs : o # self => pc[o] = "idle", WriteVersions(self)
      PROVE  SerialInv'
  <2> USE <1>SerialWriteVersions
  <2> DEFINE j == job[self]
  <2>1. /\ pc[self] = "writeVersions" /\ UNCHANGED <<index, dirs, files>>
        /\ j.prj \in Projects /\ j.op \in Commands /\ Progress(self)
    BY JobFields DEF WriteVersions, BaseInv, SerialInv
  <2>2. /\ versions'[j.prj].val \in {j.vers, <<>>}
        /\ \A q \in Projects : q # j.prj => versions'[q].val = versions[q].val
    BY SMT, <2>1 DEF WriteVersions, BaseInv, DiskInv, Overwritten, Json, Blank
  <2>3. VersionFilesPresent'
    <3>1. \A i \in DOMAIN j.vers : Live(j.vers[i]) => Present(j.prj, j.vers[i])
      BY <2>1 DEF Progress, WritableList, FileNames
    <3> SUFFICES ASSUME NEW p \in Projects, NEW i \in DOMAIN versions'[p].val,
                        versions'[p].val[i].status # "removed"
                 PROVE  LET e == versions'[p].val[i] IN
                        /\ <<p, e.version>> \in dirs
                        /\ \A f \in FileNames : files[<<p, e.version, f>>] = e.build
      BY ZenonT(60), <2>1 DEF VersionFilesPresent
    <3>2. CASE p = j.prj
      <4>1. DOMAIN <<>> = {}
        BY SMT
      <4>2. versions'[p].val = j.vers
        BY <2>2, <3>2, <4>1
      <4> QED
        BY <3>1, <3>2, <4>2 DEF Live, Present
    <3>3. CASE p # j.prj
      BY ZenonT(60), <2>2, <3>3 DEF SerialInv, VersionFilesPresent
    <3> QED
      BY <3>2, <3>3
  <2>4. index.val[j.prj] = "removed" => NoLive(j.vers)
    BY <2>1 DEF Progress, StepsOfCommand, IndexProgress, Commands, Removing
  <2>5. RemovedProjectHasNoLiveVersion'
    <3> SUFFICES ASSUME NEW p \in Projects, index.val[p] = "removed",
                        NEW i \in DOMAIN versions'[p].val
                 PROVE  versions'[p].val[i].status = "removed"
      BY <2>1 DEF RemovedProjectHasNoLiveVersion
    <3>1. DOMAIN <<>> = {}
      BY SMT
    <3>2. CASE p = j.prj
      BY <2>2, <2>4, <3>1, <3>2 DEF NoLive, Live
    <3>3. CASE p # j.prj
      BY <2>2, <3>3 DEF SerialInv, RemovedProjectHasNoLiveVersion
    <3> QED
      BY <3>2, <3>3
  <2>6. CASE \E r : Return(self, r)
    BY <2>3, <2>5, <2>6, <1>SerialReturn DEF BaseInv
  <2>7. CASE j.op = "add" /\ Continue(self, "truncIndex", j)
    <3>1. pc'[self] = "truncIndex" /\ job'[self] = j
      BY <2>7, ContinueValues DEF BaseInv
    <3>2. StepsOfCommand(self)' /\ AddProgress(self)' /\ RemoveProgress(self)'
      BY <2>7, <3>1 DEF StepsOfCommand, AddProgress, RemoveProgress, FileNames
    <3>3. WritableList(self)'
      BY ZenonT(60), <2>1, <3>1 DEF Progress, WritableList, FileNames, Present
    <3>4. j.idx[j.prj] # "removed" /\ index.val[j.prj] # "removed"
      BY <2>1, <2>7 DEF Progress, IndexProgress
    <3>5. \A q \in Projects : j.idx[q] = "removed" => NoLive(versions'[q].val)
      BY <2>1, <2>2, <2>7, <3>4 DEF Progress, IndexProgress, Removing
    <3>6. IndexProgress(self)'
      BY <2>1, <2>7, <3>1, <3>4, <3>5 DEF IndexProgress, Removing
    <3>7. Progress(self)'
      BY <3>2, <3>3, <3>6 DEF Progress
    <3> QED
      BY <2>3, <2>5, <2>7, <3>7, <1>SerialContinue DEF BaseInv
  <2>8. CASE Removing(j) /\ Continue(self, "rmdir", j)
    <3>1. pc'[self] = "rmdir" /\ job'[self] = j
      BY <2>8, ContinueValues DEF BaseInv
    <3>2. StepsOfCommand(self)' /\ AddProgress(self)'
      BY <2>8, <3>1 DEF StepsOfCommand, AddProgress, FileNames
    <3>3. WritableList(self)'
      BY ZenonT(60), <2>1, <3>1 DEF Progress, WritableList, FileNames, Present
    <3>4. RemoveProgress(self)'
      <4>1. /\ \A i \in DOMAIN j.vers : j.vers[i].version = j.ver => ~Live(j.vers[i])
            /\ j.op = "removeProject" => \A i \in DOMAIN j.vers : i < j.next => ~Live(j.vers[i])
        BY <2>1, <2>8 DEF Progress, RemoveProgress
      <4>2. DOMAIN <<>> = {}
        BY SMT
      <4>3. \A i \in DOMAIN versions'[j.prj].val :
               versions'[j.prj].val = j.vers /\ versions'[j.prj].val[i] = j.vers[i]
        BY <2>2, <4>2
      <4> QED
        BY ZenonT(60), <3>1, <4>1, <4>3 DEF RemoveProgress
    <3>5. IndexProgress(self)'
      BY <2>1, <2>2, <2>8, <3>1 DEF Progress, IndexProgress, Removing
    <3>6. Progress(self)'
      BY <3>2, <3>3, <3>4, <3>5 DEF Progress
    <3> QED
      BY <2>3, <2>5, <2>8, <3>6, <1>SerialContinue DEF BaseInv
  <2> QED
    BY <2>6, <2>7, <2>8 DEF WriteVersions, Removing
<1>SerialWriteIndex.
      ASSUME BaseInv, SerialInv, NEW self \in Procs,
             \A o \in Procs : o # self => pc[o] = "idle", TruncIndex(self) \/ WriteIndex(self)
      PROVE  SerialInv'
  <2> USE <1>SerialWriteIndex
  <2> DEFINE j == job[self]
  <2>1. UNCHANGED <<versions, dirs, files>> /\ Progress(self) /\ j.prj \in Projects
    BY JobFields DEF TruncIndex, WriteIndex, SerialInv, BaseInv
  <2>2. VersionFilesPresent'
    BY <2>1 DEF SerialInv, VersionFilesPresent
  <2>3. pc[self] \in {"truncIndex", "writeIndex"} /\ index'.val \in {j.idx, NoProjects}
    BY SMTT(30) DEF TruncIndex, WriteIndex, Overwritten, Json, Blank
  <2>4. \A q \in Projects : j.idx[q] = "removed" => NoLive(versions[q].val)
    BY <2>1, <2>3 DEF Progress, IndexProgress
  <2>5. RemovedProjectHasNoLiveVersion'
    BY <2>1, <2>3, <2>4 DEF RemovedProjectHasNoLiveVersion, NoLive, Live, NoProjects
  <2>6. CASE WriteIndex(self)
    BY <2>2, <2>5, <2>6, <1>SerialReturn DEF WriteIndex, BaseInv
  <2>7. CASE TruncIndex(self)
    <3>1. Continue(self, "writeIndex", j)
      BY <2>7 DEF TruncIndex
    <3>2. pc'[self] = "writeIndex" /\ job'[self] = j
      BY <3>1, ContinueValues DEF BaseInv
    <3>3. pc[self] = "truncIndex" /\ index'.val[j.prj] # "removed"
      BY <2>1, <2>7 DEF TruncIndex, Blank, NoProjects
    <3>4. StepsOfCommand(self)' /\ AddProgress(self)'
      BY <3>2 DEF StepsOfCommand, AddProgress, FileNames
    <3>5. WritableList(self)'
      BY ZenonT(60), <2>1, <3>2, <3>3 DEF Progress, WritableList, FileNames, Present
    <3>6. RemoveProgress(self)'
      BY <2>1, <3>2 DEF Progress, RemoveProgress
    <3>7. IndexProgress(self)'
      BY <2>1, <2>4, <3>2, <3>3 DEF Progress, IndexProgress
    <3>8. Progress(self)'
      BY <3>4, <3>5, <3>6, <3>7 DEF Progress
    <3> QED
      BY <2>2, <2>5, <3>1, <3>8, <1>SerialContinue DEF BaseInv
  <2> QED
    BY <2>6, <2>7
<1>SerialInterrupted.
      ASSUME BaseInv, SerialInv, NEW self \in Procs,
             \A o \in Procs : o # self => pc[o] = "idle", WriteJsonFails(self) \/ Stop(self)
      PROVE  SerialInv'
  <2> USE <1>SerialInterrupted
  <2> DEFINE j == job[self]
  <2>1. /\ \A q \in Projects : versions'[q].val \in {versions[q].val, <<>>}
        /\ index'.val \in {index.val, NoProjects} /\ UNCHANGED <<dirs, files>>
    BY SMTT(40) DEF WriteJsonFails, Stop, BaseInv, DiskInv, Blank, disk
  <2>2. VersionFilesPresent'
    <3> SUFFICES ASSUME NEW p \in Projects, NEW i \in DOMAIN versions'[p].val,
                        versions'[p].val[i].status # "removed"
                 PROVE  LET e == versions'[p].val[i] IN
                        /\ <<p, e.version>> \in dirs
                        /\ \A f \in FileNames : files[<<p, e.version, f>>] = e.build
      BY <2>1 DEF VersionFilesPresent
    <3>1. DOMAIN <<>> = {}
      BY SMT
    <3>2. versions'[p].val = versions[p].val
      BY <2>1, <3>1
    <3> QED
      BY <3>2 DEF SerialInv, VersionFilesPresent
  <2>3. RemovedProjectHasNoLiveVersion'
    BY SMT, <2>1 DEF SerialInv, RemovedProjectHasNoLiveVersion, NoProjects
  <2> QED
    BY <2>2, <2>3, <1>SerialReturn DEF WriteJsonFails, Stop, BaseInv
<1>1. BaseInv'
  <2>1. [Next]_vars
    BY DEF SerialNext, SerialStart, Next
  <2> QED
    BY <2>1, BaseNext
<1>2. CASE UNCHANGED vars
  <2>1. Exclusive' /\ VersionFilesPresent' /\ RemovedProjectHasNoLiveVersion'
    BY <1>2, <1>SameDisk DEF SerialInv, Exclusive, vars, disk
  <2>2. ASSUME NEW self \in Procs PROVE Progress(self)'
    <3>1. Progress(self)
      BY DEF SerialInv
    <3>2. StepsOfCommand(self)' /\ AddProgress(self)'
      BY <1>2, <3>1 DEF Progress, StepsOfCommand, AddProgress, vars
    <3>3. WritableList(self)'
      BY <1>2, <3>1 DEF Progress, WritableList, Present, vars
    <3>4. RemoveProgress(self)' /\ IndexProgress(self)'
      BY ZenonT(60), <1>2, <3>1 DEF Progress, RemoveProgress, IndexProgress, vars
    <3> QED
      BY <3>2, <3>3, <3>4 DEF Progress
  <2> QED
    BY <1>1, <2>1, <2>2 DEF SerialInv
<1>3. CASE SerialNext
  <2>1. PICK self \in Procs : SerialStart(self) \/ Step(self) \/ Fault(self)
    BY <1>3 DEF SerialNext
  <2>2. CASE SerialStart(self)
    BY <1>1, <2>2, <1>SerialStarts
  <2>3. CASE Step(self) \/ Fault(self)
    <3>1. pc[self] # "idle"
      BY <2>3 DEF Step, Fault, AddOpenIndex, YankOpenIndex, RemoveOpenIndex, AddOpenVersions,
         AddMkdir, AddWriteFile, YankOpenVersions, RemoveOpenVersions, RemoveScan, RemoveFile,
         RemoveDir, TruncVersions, WriteVersions, TruncIndex, WriteIndex, AddWriteFileFails,
         AddKilledInWriteFile, WriteJsonFails, Stop, FileNames
    <3>2. \A o \in Procs : o # self => pc[o] = "idle"
      BY <3>1 DEF SerialInv, Exclusive
    <3>3. CASE Step(self)
      BY <1>1, <3>2, <3>3, <1>SerialOpenIndex, <1>SerialOpenVersions, <1>SerialMkdir, <1>SerialWriteFile,
         <1>SerialRemoveScan, <1>SerialRemoveFiles, <1>SerialTruncVersions, <1>SerialWriteVersions,
         <1>SerialWriteIndex DEF Step
    <3>4. CASE Fault(self)
      BY <1>1, <3>2, <3>4, <1>SerialAddFaults, <1>SerialInterrupted DEF Fault
    <3> QED
      BY <2>3, <3>3, <3>4
  <2> QED
    BY <2>1, <2>2, <2>3
<1> QED
  BY <1>1, <1>2, <1>3

\* With commands one at a time, any of which may fail or be killed at any
\* step, the strengthened invariant holds, for any projects and versions.
THEOREM SerialInvariant == SerialSpec => []SerialInv
<1>1. SerialSpec => [](BaseInv /\ SerialInv)
  BY BaseInit, SerialInit, SerialNextStep, PTL DEF SerialSpec
<1> QED
  BY <1>1, PTL

\* Every version listed as available or yanked has its directory with the
\* three files of the archive its entry describes, however many commands
\* failed or were killed half-way before.
THEOREM ListedVersionsHaveFiles == SerialSpec => []VersionFilesPresent
<1>1. SerialInv => VersionFilesPresent
  BY DEF SerialInv
<1> QED
  BY <1>1, SerialInvariant, PTL

\* A project index.json marks removed has no version left that is not removed,
\* and none is added to it or revived later.
THEOREM RemovedProjectsAreEmpty == SerialSpec => []RemovedProjectHasNoLiveVersion
<1>1. SerialInv => RemovedProjectHasNoLiveVersion
  BY DEF SerialInv
<1> QED
  BY <1>1, SerialInvariant, PTL

-----------------------------------------------------------------------------
(* What a successful add has done *)

LEMMA PublishInit == Init => PublishInv
<1> SUFFICES ASSUME Init, NEW self \in Procs PROVE Publishing(self)
  BY DEF PublishInv
<1>1. pc[self] = "idle"
  BY DEF Init, NothingAdded
<1> QED
  BY <1>1 DEF Publishing, FileNames

\* write_all follows set_len(0) with nothing in between.
LEMMA WrittenVersions ==
    ASSUME BaseInv, PublishInv, NEW self \in Procs, WriteVersions(self)
    PROVE  versions' = [versions EXCEPT ![job[self].prj] = Json(job[self].vers)]
<1>1. versions[job[self].prj].kind = "empty"
  BY DEF PublishInv, Publishing, WriteVersions
<1> QED
  BY <1>1 DEF WriteVersions, Overwritten

LEMMA WrittenIndex ==
    ASSUME BaseInv, PublishInv, NEW self \in Procs, WriteIndex(self)
    PROVE  index' = Json(job[self].idx)
<1>1. index.kind = "empty"
  BY DEF PublishInv, Publishing, WriteIndex
<1> QED
  BY <1>1 DEF WriteIndex, Overwritten

LEMMA StepIsOfRunning ==
    ASSUME NEW self \in Procs, Step(self) \/ Fault(self)
    PROVE  pc[self] # "idle"
BY DEF Step, Fault, AddOpenIndex, YankOpenIndex, RemoveOpenIndex, AddOpenVersions,
   AddMkdir, AddWriteFile, YankOpenVersions, RemoveOpenVersions, RemoveScan, RemoveFile,
   RemoveDir, TruncVersions, WriteVersions, TruncIndex, WriteIndex, AddWriteFileFails,
   AddKilledInWriteFile, WriteJsonFails, Stop, FileNames

LEMMA PublishNextStep ==
    ASSUME BaseInv, SerialInv, PublishInv, [SerialNext]_vars
    PROVE  PublishInv'
\* A process that runs no command publishes nothing.
<1>IdlePublishing.
      ASSUME NEW self \in Procs, pc'[self] = "idle"
      PROVE  Publishing(self)'
  BY <1>IdlePublishing DEF Publishing, FileNames
<1>PublishFrame.
      ASSUME NEW self \in Procs, Publishing(self)',
             \A o \in Procs : o # self => pc[o] = "idle" /\ pc'[o] = pc[o]
      PROVE  PublishInv'
  BY <1>PublishFrame, <1>IdlePublishing DEF PublishInv
<1>PublishReturn.
      ASSUME ControlInv, NEW self \in Procs, NEW result, Return(self, result),
             \A o \in Procs : o # self => pc[o] = "idle"
      PROVE  PublishInv'
  <2> USE <1>PublishReturn
  <2>1. /\ pc'[self] = "idle"
        /\ \A o \in Procs : o # self => pc'[o] = pc[o]
    BY DEF ControlInv, Return, Goto
  <2> QED
    BY <2>1, <1>IdlePublishing, <1>PublishFrame
<1>PublishContinue.
      ASSUME ControlInv, NEW self \in Procs, NEW label, NEW locals,
             Continue(self, label, locals),
             \A o \in Procs : o # self => pc[o] = "idle",
             locals.op = "add" /\ label \notin {"idle", "openIndex"} =>
                /\ locals.idx[locals.prj] = "available"
                /\ locals.isNew \/ index'.val[locals.prj] = "available",
             locals.op = "add"
               /\ label \in {"mkdir", "truncVersions", "writeVersions"} \cup FileNames =>
                \E i \in DOMAIN locals.vers : locals.vers[i] = NewEntry(locals),
             locals.op = "add" /\ label \in {"truncIndex", "writeIndex"} =>
                /\ locals.isNew
                /\ \E i \in DOMAIN versions'[locals.prj].val :
                      versions'[locals.prj].val[i] = NewEntry(locals),
             label = "writeVersions" => versions'[locals.prj].kind = "empty",
             label = "writeIndex" => index'.kind = "empty"
      PROVE  PublishInv'
  <2> USE <1>PublishContinue
  <2>1. /\ pc'[self] = label /\ job'[self] = locals
        /\ \A o \in Procs : o # self => pc'[o] = pc[o]
    BY DEF ControlInv, Continue, Goto
  <2>2. Publishing(self)'
    BY <2>1 DEF Publishing, NewEntry
  <2> QED
    BY <2>1, <2>2, <1>PublishFrame
<1>PublishStarts.
      ASSUME BaseInv, NEW self \in Procs, SerialStart(self)
      PROVE  PublishInv'
  <2> USE <1>PublishStarts
  <2>1. \A o \in Procs : o # self => pc[o] = "idle"
    BY DEF SerialStart, AllIdle
  <2>2. CASE BeginInit(self)
    <3>1. CASE Return(self, "error")
      BY <2>1, <3>1, <1>PublishReturn DEF BaseInv
    <3>2. CASE index' = Blank("empty", NoProjects) /\ Continue(self, "writeIndex", NoJob)
      <4>1. NoJob.op # "add" /\ index'.kind = "empty"
        BY <3>2, NoJobFields DEF Blank
      <4> QED
        BY <2>1, <3>2, <4>1, <1>PublishContinue DEF BaseInv
    <3> QED
      BY <2>2, <3>1, <3>2 DEF BeginInit
  <2>3. CASE \E locals : Begin(self, locals)
    <3>1. PICK locals : Begin(self, locals)
      BY <2>3
    <3>2. "openIndex" \notin FileNames
      BY DEF FileNames
    <3> QED
      BY <2>1, <3>1, <3>2, <1>PublishContinue DEF BaseInv, Begin
  <2> QED
    BY <2>2, <2>3 DEF SerialStart, Start, StartPublish, StartRemove, BeginAdd, BeginYank,
       BeginRemoveVersion, BeginRemoveProject
<1>PublishOpenIndex.
      ASSUME BaseInv, NEW self \in Procs, \A o \in Procs : o # self => pc[o] = "idle",
             AddOpenIndex(self) \/ YankOpenIndex(self) \/ RemoveOpenIndex(self)
      PROVE  PublishInv'
  <2> USE <1>PublishOpenIndex
  <2> DEFINE j == job[self]
  <2>1. UNCHANGED index /\ j \in Jobs /\ j.prj \in Projects /\ index.val \in IndexJson
    BY JobFields DEF AddOpenIndex, YankOpenIndex, RemoveOpenIndex, disk, BaseInv, DiskInv
  <2>2. "openVersions" \notin FileNames
    BY DEF FileNames
  <2>3. CASE \E r : Return(self, r)
    BY <2>3, <1>PublishReturn DEF BaseInv
  <2>4. CASE ~(\E r : Return(self, r)) /\ AddOpenIndex(self)
    <3> DEFINE idx == [index.val EXCEPT ![j.prj] = "available"]
               new == (index.val[j.prj] = "unlisted")
               locals == [j EXCEPT !.idx = idx, !.isNew = new]
    <3>1. index.val[j.prj] # "removed" /\ Continue(self, "openVersions", locals)
      BY <2>4 DEF AddOpenIndex
    <3>2. idx[j.prj] = "available" /\ (new \/ index.val[j.prj] = "available")
      BY <2>1, <3>1 DEF IndexJson, ProjectStatus
    <3> HIDE DEF idx, new
    <3>3. locals.prj = j.prj /\ locals.idx = idx /\ locals.isNew = new
      BY <2>1 DEF Jobs
    <3> HIDE DEF locals
    <3> QED
      BY <2>1, <2>2, <3>1, <3>2, <3>3, <1>PublishContinue DEF BaseInv
  <2>5. CASE ~(\E r : Return(self, r)) /\ YankOpenIndex(self)
    <3>1. j.op # "add" /\ Continue(self, "openVersions", j)
      BY <2>5 DEF YankOpenIndex
    <3> QED
      BY <2>2, <3>1, <1>PublishContinue DEF BaseInv
  <2>6. CASE ~(\E r : Return(self, r)) /\ RemoveOpenIndex(self)
    <3>1. PICK idx : Continue(self, "openVersions", [j EXCEPT !.idx = idx])
      BY <2>6 DEF RemoveOpenIndex
    <3> DEFINE locals == [j EXCEPT !.idx = idx]
    <3>2. locals.op = j.op /\ j.op \in {"removeVersion", "removeProject"}
      BY <2>1, <2>6 DEF Jobs, RemoveOpenIndex
    <3>3. Continue(self, "openVersions", locals)
      BY <3>1
    <3> HIDE DEF locals
    <3>4. locals.op # "add"
      BY <3>2
    <3> QED
      BY <2>2, <3>3, <3>4, <1>PublishContinue DEF BaseInv
  <2> QED
    BY <2>3, <2>4, <2>5, <2>6
<1>PublishOpenVersions.
      ASSUME BaseInv, PublishInv, NEW self \in Procs,
             \A o \in Procs : o # self => pc[o] = "idle",
             AddOpenVersions(self) \/ YankOpenVersions(self) \/ RemoveOpenVersions(self)
      PROVE  PublishInv'
  <2> USE <1>PublishOpenVersions
  <2> DEFINE j == job[self]
  <2>1. UNCHANGED index /\ pc[self] = "openVersions" /\ j \in Jobs /\ Publishing(self)
    BY JobFields DEF AddOpenVersions, YankOpenVersions, RemoveOpenVersions, BaseInv,
       PublishInv
  <2>2. CASE \E r : Return(self, r)
    BY <2>2, <1>PublishReturn DEF BaseInv
  <2>3. ASSUME NEW label, NEW t, Continue(self, label, [j EXCEPT !.vers = t]),
               label \in {"mkdir", "truncVersions", "scan"},
               j.op = "add" => \E i \in DOMAIN t : t[i] = NewEntry(j)
        PROVE  PublishInv'
    <3> DEFINE locals == [j EXCEPT !.vers = t]
    <3>1. /\ locals.op = j.op /\ locals.prj = j.prj /\ locals.ver = j.ver
          /\ locals.idx = j.idx /\ locals.build = j.build /\ locals.vers = t
          /\ locals.isNew = j.isNew
      BY <2>1 DEF Jobs
    <3>2. Continue(self, label, locals)
      BY <2>3
    <3> HIDE DEF locals
    <3>3. NewEntry(locals) = NewEntry(j)
      BY <3>1 DEF NewEntry
    <3>4. label \notin {"idle", "openIndex", "truncIndex", "writeIndex", "writeVersions"}
      BY <2>3
    <3>5. j.op = "add" =>
             j.idx[j.prj] = "available" /\ (j.isNew \/ index.val[j.prj] = "available")
      BY <2>1 DEF Publishing
    <3> QED
      BY ZenonT(60), <2>1, <2>3, <3>1, <3>2, <3>3, <3>4, <3>5, <1>PublishContinue DEF BaseInv
  <2>4. CASE ~(\E r : Return(self, r)) /\ AddOpenVersions(self)
    <3> DEFINE u == SortedDescending(OpenedVersions(j.prj).val)
               e == [version |-> j.ver, status |-> "available", build |-> j.build]
               t == InsertAt(u, InsertPosition(u, j.ver), e)
    <3>1. ~Listed(u, j.ver) /\ Continue(self, "mkdir", [j EXCEPT !.vers = t])
      BY <2>4 DEF AddOpenVersions
    <3>2. \E i \in DOMAIN t : t[i] = NewEntry(j)
      BY <3>1, AddedList DEF NewEntry
    <3> HIDE DEF t
    <3> QED
      BY <2>3, <3>1, <3>2
  <2>5. CASE ~(\E r : Return(self, r)) /\ YankOpenVersions(self)
    <3>1. j.op # "add" /\ \E t : Continue(self, "truncVersions", [j EXCEPT !.vers = t])
      BY <2>5 DEF YankOpenVersions
    <3> QED
      BY <2>3, <3>1
  <2>6. CASE ~(\E r : Return(self, r)) /\ RemoveOpenVersions(self)
    <3>1. j.op # "add" /\ \E t : Continue(self, "scan", [j EXCEPT !.vers = t])
      BY <2>6 DEF RemoveOpenVersions
    <3> QED
      BY <2>3, <3>1
  <2> QED
    BY <2>2, <2>4, <2>5, <2>6
<1>PublishAddFiles.
      ASSUME BaseInv, PublishInv, NEW self \in Procs,
             \A o \in Procs : o # self => pc[o] = "idle",
             \/ AddMkdir(self) \/ AddWriteFile(self)
             \/ AddWriteFileFails(self) \/ AddKilledInWriteFile(self)
      PROVE  PublishInv'
  <2> USE <1>PublishAddFiles
  <2> DEFINE j == job[self]
  <2>1. UNCHANGED index /\ pc[self] \in {"mkdir"} \cup FileNames /\ Publishing(self)
    BY DEF AddMkdir, AddWriteFile, AddWriteFileFails, AddKilledInWriteFile, PublishInv
  <2>2. CASE \E r : Return(self, r)
    BY <2>2, <1>PublishReturn DEF BaseInv
  <2>3. CASE \E label \in FileNames \cup {"truncVersions"} : Continue(self, label, j)
    <3>1. PICK label \in FileNames \cup {"truncVersions"} : Continue(self, label, j)
      BY <2>3
    <3>2. label \notin {"idle", "openIndex", "truncIndex", "writeIndex", "writeVersions"}
      BY DEF FileNames
    <3>3. j.op = "add" =>
             /\ j.idx[j.prj] = "available" /\ (j.isNew \/ index.val[j.prj] = "available")
             /\ \E i \in DOMAIN j.vers : j.vers[i] = NewEntry(j)
      BY <2>1 DEF Publishing, FileNames
    <3> QED
      BY <2>1, <3>1, <3>2, <3>3, <1>PublishContinue DEF BaseInv
  <2>4. CASE AddMkdir(self)
    BY <2>2, <2>3, <2>4 DEF AddMkdir, FileNames
  <2>5. CASE AddWriteFile(self)
    <3>1. FileStep[pc[self]] \in FileNames \cup {"truncVersions"}
      BY SMT, <2>5 DEF AddWriteFile, FileStep, FileNames
    <3> QED
      BY <2>2, <2>3, <2>5, <3>1 DEF AddWriteFile
  <2>6. CASE AddWriteFileFails(self) \/ AddKilledInWriteFile(self)
    BY <2>2, <2>6 DEF AddWriteFileFails, AddKilledInWriteFile
  <2> QED
    BY <2>4, <2>5, <2>6
<1>PublishRemove.
      ASSUME BaseInv, SerialInv, NEW self \in Procs,
             \A o \in Procs : o # self => pc[o] = "idle",
             RemoveScan(self) \/ RemoveFile(self) \/ RemoveDir(self)
      PROVE  PublishInv'
  <2> USE <1>PublishRemove
  <2> DEFINE j == job[self]
  <2>1. pc[self] \in {"scan", "rmdir"} /\ j \in Jobs /\ StepsOfCommand(self)
    BY JobFields DEF RemoveScan, RemoveFile, RemoveDir, BaseInv, SerialInv, Progress
  <2>2. j.op # "add"
    BY <2>1 DEF StepsOfCommand, Removing
  <2>3. CASE \E r : Return(self, r)
    BY <2>3, <1>PublishReturn DEF BaseInv
  <2>4. ASSUME NEW label, NEW locals, Continue(self, label, locals), locals.op = j.op,
               label \in {"scan", "truncVersions", "truncIndex"}
        PROVE  PublishInv'
    <3>1. label # "writeVersions" /\ label # "writeIndex" /\ locals.op # "add"
      BY <2>2, <2>4
    <3> QED
      BY <2>4, <3>1, <1>PublishContinue DEF BaseInv
  <2>5. CASE RemoveFile(self)
    <3>1. UNCHANGED <<pc, job>>
      BY <2>5 DEF RemoveFile
    <3>2. Publishing(self)'
      BY <2>1, <2>2, <3>1 DEF Publishing
    <3> QED
      BY <3>1, <3>2, <1>PublishFrame
  <2>6. CASE RemoveDir(self)
    BY <2>3, <2>4, <2>6 DEF RemoveDir
  <2>7. CASE ~(\E r : Return(self, r)) /\ RemoveScan(self)
    <3>1. \/ Continue(self, "truncIndex", j)
          \/ \E t, v, n : Continue(self, "truncVersions",
                               [j EXCEPT !.vers = t, !.ver = v, !.next = n])
      BY <2>7 DEF RemoveScan
    <3>2. ASSUME NEW t, NEW v, NEW n,
                 Continue(self, "truncVersions", [j EXCEPT !.vers = t, !.ver = v, !.next = n])
          PROVE  PublishInv'
      <4> DEFINE locals == [j EXCEPT !.vers = t, !.ver = v, !.next = n]
      <4>1. locals.op = j.op /\ Continue(self, "truncVersions", locals)
        BY <2>1, <3>2 DEF Jobs
      <4> HIDE DEF locals
      <4> QED
        BY <2>4, <4>1
    <3> QED
      BY <2>4, <3>1, <3>2
  <2> QED
    BY <2>3, <2>5, <2>6, <2>7
<1>PublishWrites.
      ASSUME BaseInv, PublishInv, NEW self \in Procs,
             \A o \in Procs : o # self => pc[o] = "idle",
             \/ TruncVersions(self) \/ WriteVersions(self)
             \/ TruncIndex(self) \/ WriteIndex(self)
             \/ WriteJsonFails(self) \/ Stop(self)
      PROVE  PublishInv'
  <2> USE <1>PublishWrites
  <2> DEFINE j == job[self]
  <2>1. /\ j.prj \in Projects /\ Publishing(self)
        /\ versions \in [Projects -> [kind: FileKind, val: VersionsJson]]
    BY JobFields DEF BaseInv, DiskInv, PublishInv
  <2>2. CASE \E r : Return(self, r)
    BY <2>2, <1>PublishReturn DEF BaseInv
  <2>3. CASE TruncVersions(self)
    <3>1. /\ pc[self] = "truncVersions" /\ UNCHANGED index
          /\ versions' = [versions EXCEPT ![j.prj] = Blank("empty", <<>>)]
          /\ Continue(self, "writeVersions", j)
      BY <2>3 DEF TruncVersions
    <3>2. versions'[j.prj].kind = "empty"
      BY <2>1, <3>1 DEF Blank
    <3>3. j.op = "add" =>
             /\ j.idx[j.prj] = "available" /\ (j.isNew \/ index.val[j.prj] = "available")
             /\ \E i \in DOMAIN j.vers : j.vers[i] = NewEntry(j)
      BY <2>1, <3>1 DEF Publishing
    <3> QED
      BY <3>1, <3>2, <3>3, <1>PublishContinue DEF BaseInv
  <2>4. CASE ~(\E r : Return(self, r)) /\ WriteVersions(self)
    <3>1. /\ pc[self] = "writeVersions" /\ UNCHANGED index
          /\ versions' = [versions EXCEPT ![j.prj] = Json(j.vers)]
          /\ \/ j.op = "add" /\ j.isNew /\ Continue(self, "truncIndex", j)
             \/ j.op \in {"removeVersion", "removeProject"} /\ Continue(self, "rmdir", j)
      BY <2>4, WrittenVersions DEF WriteVersions
    <3>2. versions'[j.prj].val = j.vers
      BY <2>1, <3>1 DEF Json
    <3>3. j.op = "add" =>
             /\ j.idx[j.prj] = "available" /\ (j.isNew \/ index.val[j.prj] = "available")
             /\ \E i \in DOMAIN j.vers : j.vers[i] = NewEntry(j)
      BY <2>1, <3>1 DEF Publishing
    <3>4. CASE j.op = "add" /\ j.isNew /\ Continue(self, "truncIndex", j)
      <4>1. "truncIndex" \notin {"mkdir", "truncVersions", "writeVersions"} \cup FileNames
        BY DEF FileNames
      <4> QED
        BY ZenonT(60), <3>1, <3>2, <3>3, <3>4, <4>1, <1>PublishContinue DEF BaseInv
    <3>5. CASE j.op \in {"removeVersion", "removeProject"} /\ Continue(self, "rmdir", j)
      BY <3>5, <1>PublishContinue DEF BaseInv
    <3> QED
      BY <3>1, <3>4, <3>5
  <2>5. CASE TruncIndex(self)
    <3>1. /\ pc[self] = "truncIndex" /\ UNCHANGED versions /\ index'.kind = "empty"
          /\ Continue(self, "writeIndex", j)
      BY ZenonT(60), <2>5 DEF TruncIndex, Blank
    <3>2. j.op = "add" =>
             /\ j.idx[j.prj] = "available" /\ j.isNew
             /\ \E i \in DOMAIN versions[j.prj].val : versions[j.prj].val[i] = NewEntry(j)
      BY <2>1, <3>1 DEF Publishing
    <3>3. "writeIndex" \notin {"mkdir", "truncVersions", "writeVersions"} \cup FileNames
      BY DEF FileNames
    <3> QED
      BY <3>1, <3>2, <3>3, <1>PublishContinue DEF BaseInv
  <2> QED
    BY <2>2, <2>3, <2>4, <2>5 DEF WriteIndex, WriteJsonFails, Stop
<1>1. CASE UNCHANGED vars
  <2>1. UNCHANGED <<index, versions, pc, job>>
    BY <1>1 DEF vars
  <2> QED
    BY <2>1 DEF PublishInv, Publishing, NewEntry
<1>2. CASE SerialNext
  <2>1. PICK self \in Procs : SerialStart(self) \/ Step(self) \/ Fault(self)
    BY <1>2 DEF SerialNext
  <2>2. CASE SerialStart(self)
    BY <2>2, <1>PublishStarts
  <2>3. CASE Step(self) \/ Fault(self)
    <3>1. \A o \in Procs : o # self => pc[o] = "idle"
      BY <2>3, StepIsOfRunning DEF SerialInv, Exclusive
    <3>2. CASE Step(self)
      BY <3>1, <3>2, <1>PublishOpenIndex, <1>PublishOpenVersions, <1>PublishAddFiles,
         <1>PublishRemove, <1>PublishWrites DEF Step
    <3>3. CASE Fault(self)
      BY <3>1, <3>3, <1>PublishAddFiles, <1>PublishWrites DEF Fault
    <3> QED
      BY <2>3, <3>2, <3>3
  <2> QED
    BY <2>1, <2>2, <2>3
<1> QED
  BY <1>1, <1>2

\* `add' reports success after one of its last writes and nowhere else.
LEMMA AddOkAfterWrite ==
    ASSUME BaseInv, SerialInv, SerialNext, NEW self \in Procs, Ends(self, "add", "ok")
    PROVE  \/ WriteVersions(self) /\ ~job[self].isNew
           \/ WriteIndex(self)
<1> DEFINE j == job[self]
<1>1. j.op = "add" /\ pc[self] # "idle" /\ pc'[self] = "idle" /\ outcome'[self] = "ok"
  BY DEF Ends
<1>2. \A r : Return(self, r) => r = "ok"
  BY <1>1 DEF Return, BaseInv, ControlInv
<1>3. \A label, locals : Continue(self, label, locals) => label = "idle"
  BY <1>1 DEF Continue, Goto, BaseInv, ControlInv
<1>4. Step(self) \/ Fault(self)
  <2>1. PICK a \in Procs : SerialStart(a) \/ Step(a) \/ Fault(a)
    BY DEF SerialNext
  <2>2. ~SerialStart(a)
    BY <1>1 DEF SerialStart, AllIdle
  <2>3. a = self
    BY <1>1, <2>1, <2>2, StepIsOfRunning DEF SerialInv, Exclusive
  <2> QED
    BY <2>1, <2>2, <2>3
<1>5. ~(AddOpenIndex(self) \/ YankOpenIndex(self) \/ RemoveOpenIndex(self))
  BY <1>2, <1>3 DEF AddOpenIndex, YankOpenIndex, RemoveOpenIndex
<1>6. ~(AddOpenVersions(self) \/ YankOpenVersions(self) \/ RemoveOpenVersions(self))
  BY <1>1, <1>2, <1>3 DEF AddOpenVersions, YankOpenVersions, RemoveOpenVersions
<1>7. ~AddMkdir(self)
  BY <1>2, <1>3 DEF AddMkdir
<1>8. ~AddWriteFile(self)
  <2>1. pc[self] \in FileNames => FileStep[pc[self]] # "idle"
    BY SMTT(40) DEF FileNames, FileStep
  <2> QED
    BY <1>2, <1>3, <2>1 DEF AddWriteFile
<1>9. ~(RemoveScan(self) \/ RemoveFile(self) \/ RemoveDir(self))
  <2>1. pc[self] \notin {"scan", "rmdir"}
    BY <1>1 DEF SerialInv, Progress, StepsOfCommand, Removing
  <2> QED
    BY <2>1 DEF RemoveScan, RemoveFile, RemoveDir
<1>10. ~TruncVersions(self) /\ ~TruncIndex(self)
  BY <1>3 DEF TruncVersions, TruncIndex
<1>11. WriteVersions(self) => ~j.isNew
  BY <1>1, <1>2, <1>3 DEF WriteVersions
<1>12. ~Fault(self)
  BY <1>2 DEF Fault, AddWriteFileFails, AddKilledInWriteFile, WriteJsonFails, Stop
<1> QED
  BY <1>4, <1>5, <1>6, <1>7, <1>8, <1>9, <1>10, <1>11, <1>12 DEF Step

\* When `add' reports success, the project is listed, the version is listed as
\* available, and its directory holds the archive that was given, whatever
\* earlier commands failed or were killed at.
THEOREM AddOkIsPublished == SerialSpec => AddOkMeansPublished
<1>1. ASSUME BaseInv, SerialInv, PublishInv, [SerialNext]_vars
      PROVE  [\A self \in Procs : Ends(self, "add", "ok") =>
                LET j == job[self] IN
                /\ index'.val[j.prj] = "available"
                /\ \E i \in DOMAIN versions'[j.prj].val :
                      versions'[j.prj].val[i] =
                          [version |-> j.ver, status |-> "available", build |-> j.build]
                /\ \A f \in FileNames : files'[<<j.prj, j.ver, f>>] = j.build]_vars
  <2> SUFFICES ASSUME SerialNext, NEW self \in Procs, Ends(self, "add", "ok")
               PROVE  LET j == job[self] IN
                      /\ index'.val[j.prj] = "available"
                      /\ \E i \in DOMAIN versions'[j.prj].val :
                            versions'[j.prj].val[i] = NewEntry(j)
                      /\ \A f \in FileNames : files'[<<j.prj, j.ver, f>>] = j.build
    BY <1>1 DEF NewEntry
  <2> DEFINE j == job[self]
  <2>1. /\ BaseInv /\ SerialInv /\ PublishInv /\ Publishing(self)
        /\ j.op = "add" /\ j.prj \in Projects
        /\ versions \in [Projects -> [kind: FileKind, val: VersionsJson]]
    BY <1>1, JobFields DEF Ends, PublishInv, BaseInv, DiskInv
  <2>2. \/ WriteVersions(self) /\ ~j.isNew
        \/ WriteIndex(self)
    BY <2>1, AddOkAfterWrite
  <2>3. /\ index'.val[j.prj] = "available"
        /\ \E i \in DOMAIN versions'[j.prj].val : versions'[j.prj].val[i] = NewEntry(j)
    <3>1. CASE WriteVersions(self) /\ ~j.isNew
      <4>1. pc[self] = "writeVersions" /\ UNCHANGED index
        BY <3>1 DEF WriteVersions
      <4>2. versions'[j.prj].val = j.vers
        <5>1. versions' = [versions EXCEPT ![j.prj] = Json(j.vers)]
          BY <2>1, <3>1, WrittenVersions
        <5>2. versions'[j.prj] = Json(j.vers)
          BY <2>1, <5>1
        <5> QED
          BY SMT, <5>2 DEF Json
      <4>3. /\ index.val[j.prj] = "available"
            /\ \E i \in DOMAIN j.vers : j.vers[i] = NewEntry(j)
        BY <2>1, <3>1, <4>1 DEF Publishing
      <4> QED
        BY <4>1, <4>2, <4>3
    <3>2. CASE WriteIndex(self)
      <4>1. pc[self] = "writeIndex" /\ UNCHANGED versions
        BY <3>2 DEF WriteIndex
      <4>2. index'.val = j.idx
        <5>1. index' = Json(j.idx)
          BY ZenonT(60), <2>1, <3>2, WrittenIndex
        <5> QED
          BY <5>1 DEF Json
      <4>3. /\ j.idx[j.prj] = "available"
            /\ \E i \in DOMAIN versions[j.prj].val : versions[j.prj].val[i] = NewEntry(j)
        BY <2>1, <4>1 DEF Publishing
      <4> QED
        BY <4>1, <4>2, <4>3
    <3> QED
      BY <2>2, <3>1, <3>2
  <2>4. VersionFilesPresent'
    BY <2>1, <1>1, SerialNextStep DEF SerialInv
  <2>5. \A f \in FileNames : files'[<<j.prj, j.ver, f>>] = j.build
    <3>1. PICK i \in DOMAIN versions'[j.prj].val : versions'[j.prj].val[i] = NewEntry(j)
      BY <2>3
    <3>2. /\ NewEntry(j).version = j.ver /\ NewEntry(j).build = j.build
          /\ NewEntry(j).status # "removed"
      BY DEF NewEntry
    <3>3. \A p \in Projects : \A k \in DOMAIN versions'[p].val :
             versions'[p].val[k].status # "removed" =>
                \A f \in FileNames :
                   files'[<<p, versions'[p].val[k].version, f>>] = versions'[p].val[k].build
      BY <2>4 DEF VersionFilesPresent
    <3>4. \A f \in FileNames : files'[<<j.prj, NewEntry(j).version, f>>] = NewEntry(j).build
      BY <2>1, <3>1, <3>2, <3>3
    <3> QED
      BY <3>2, <3>4
  <2> QED
    BY <2>3, <2>5
<1>2. SerialSpec => [](BaseInv /\ SerialInv /\ PublishInv)
  BY BaseInit, SerialInit, PublishInit, SerialNextStep, PublishNextStep, PTL DEF SerialSpec
<1> QED
  BY <1>1, <1>2, PTL DEF SerialSpec, AddOkMeansPublished

-----------------------------------------------------------------------------
(* Commands that run to their end *)

LEMMA CleanInit == Init => CleanInv
<1> SUFFICES ASSUME Init PROVE CleanInv
  OBVIOUS
<1>1. PlainDisk
  BY DEF Init, NothingAdded, PlainDisk, Blank
<1>2. ASSUME NEW self \in Procs PROVE FromDisk(self)
  <2>1. pc[self] = "idle"
    BY DEF Init, NothingAdded
  <2> QED
    BY <2>1 DEF FromDisk, InHand, FileNames
<1> QED
  BY <1>1, <1>2 DEF CleanInv

LEMMA CleanNextStep ==
    ASSUME BaseInv, SerialInv, PublishInv, CleanInv, [CleanNext]_vars
    PROVE  CleanInv'
<1>IdleFromDisk.
      ASSUME NEW self \in Procs, pc'[self] = "idle"
      PROVE  FromDisk(self)'
  BY <1>IdleFromDisk DEF FromDisk, InHand, FileNames
<1>CleanFrame.
      ASSUME NEW self \in Procs, FromDisk(self)', PlainDisk',
             \A o \in Procs : o # self => pc[o] = "idle" /\ pc'[o] = pc[o]
      PROVE  CleanInv'
  BY <1>CleanFrame, <1>IdleFromDisk DEF CleanInv
<1>CleanReturn.
      ASSUME ControlInv, NEW self \in Procs, NEW result, Return(self, result), PlainDisk',
             \A o \in Procs : o # self => pc[o] = "idle"
      PROVE  CleanInv'
  <2> USE <1>CleanReturn
  <2>1. /\ pc'[self] = "idle"
        /\ \A o \in Procs : o # self => pc'[o] = pc[o]
    BY DEF ControlInv, Return, Goto
  <2> QED
    BY <2>1, <1>IdleFromDisk, <1>CleanFrame
<1>CleanContinue.
      ASSUME ControlInv, NEW self \in Procs, NEW label, NEW locals,
             Continue(self, label, locals), PlainDisk', FromDisk(self)',
             \A o \in Procs : o # self => pc[o] = "idle"
      PROVE  CleanInv'
  <2> USE <1>CleanContinue
  <2>1. \A o \in Procs : o # self => pc'[o] = pc[o]
    BY DEF ControlInv, Continue, Goto
  <2> QED
    BY <2>1, <1>CleanFrame
<1>PlainSame.
      ASSUME PlainDisk, UNCHANGED disk
      PROVE  PlainDisk'
  BY <1>PlainSame DEF PlainDisk, disk
<1>PlainVersions.
      ASSUME BaseInv, PlainDisk, NEW p \in Projects, NEW f, f.kind # "json" => f.val = <<>>,
             versions' = [versions EXCEPT ![p] = f], UNCHANGED <<index, dirs, files>>
      PROVE  PlainDisk'
  BY <1>PlainVersions DEF PlainDisk, BaseInv, DiskInv
<1>PlainIndex.
      ASSUME PlainDisk, index'.kind # "json" => index'.val = NoProjects,
             UNCHANGED <<versions, dirs, files>>
      PROVE  PlainDisk'
  BY <1>PlainIndex DEF PlainDisk
<1>CleanStarts.
      ASSUME BaseInv, CleanInv, NEW self \in Procs, SerialStart(self)
      PROVE  CleanInv'
  <2> USE <1>CleanStarts
  <2>1. \A o \in Procs : o # self => pc[o] = "idle"
    BY DEF SerialStart, AllIdle
  <2>2. CASE BeginInit(self)
    <3>1. CASE Return(self, "error") /\ UNCHANGED index
      <4>1. UNCHANGED disk
        BY <2>2, <3>1 DEF BeginInit, disk
      <4> QED
        BY <2>1, <3>1, <4>1, <1>PlainSame, <1>CleanReturn DEF BaseInv, CleanInv
    <3>2. CASE index' = Blank("empty", NoProjects) /\ Continue(self, "writeIndex", NoJob)
      <4>1. PlainDisk'
        BY <2>2, <3>2, <1>PlainIndex DEF BeginInit, CleanInv, Blank
      <4>2. pc'[self] = "writeIndex" /\ job'[self] = NoJob
        BY <3>2, ContinueValues DEF BaseInv
      <4>3. FromDisk(self)'
        BY <4>2, NoJobFields DEF FromDisk, InHand, FileNames, Removing
      <4> QED
        BY <2>1, <3>2, <4>1, <4>3, <1>CleanContinue DEF BaseInv
    <3> QED
      BY <2>2, <3>1, <3>2 DEF BeginInit
  <2>3. CASE \E locals : Begin(self, locals)
    <3>1. PICK locals : Begin(self, locals)
      BY <2>3
    <3>2. pc'[self] = "openIndex" /\ Continue(self, "openIndex", locals) /\ UNCHANGED disk
      BY <3>1, ContinueValues DEF BaseInv, Begin
    <3>3. FromDisk(self)'
      BY <3>2 DEF FromDisk, InHand, FileNames
    <3> QED
      BY <2>1, <3>2, <3>3, <1>PlainSame, <1>CleanContinue DEF BaseInv, CleanInv
  <2> QED
    BY <2>2, <2>3 DEF SerialStart, Start, StartPublish, StartRemove, BeginAdd, BeginYank,
       BeginRemoveVersion, BeginRemoveProject
<1>CleanOpenIndex.
      ASSUME BaseInv, CleanInv, NEW self \in Procs,
             \A o \in Procs : o # self => pc[o] = "idle",
             AddOpenIndex(self) \/ YankOpenIndex(self) \/ RemoveOpenIndex(self)
      PROVE  CleanInv'
  <2> USE <1>CleanOpenIndex
  <2> DEFINE j == job[self]
  <2>1. UNCHANGED disk /\ j \in Jobs /\ PlainDisk'
    BY JobFields, <1>PlainSame DEF AddOpenIndex, YankOpenIndex, RemoveOpenIndex, BaseInv, CleanInv
  <2>2. CASE \E r : Return(self, r)
    BY <2>1, <2>2, <1>CleanReturn DEF BaseInv
  <2>3. ASSUME NEW locals, Continue(self, "openVersions", locals), locals.op = j.op,
               locals.prj = j.prj,
               j.op = "add" =>
                  /\ locals.idx = [index.val EXCEPT ![j.prj] = "available"]
                  /\ locals.isNew = (index.val[j.prj] = "unlisted"),
               Removing(j) =>
                  /\ locals.idx = [index.val EXCEPT ![j.prj] = "removed"]
                  /\ index.val[j.prj] # "unlisted"
        PROVE  CleanInv'
    <3>1. pc'[self] = "openVersions" /\ job'[self] = locals /\ UNCHANGED index
      BY <2>1, <2>3, ContinueValues DEF BaseInv, disk
    <3>2. FromDisk(self)'
      BY <2>3, <3>1 DEF FromDisk, InHand, FileNames, Removing
    <3> QED
      BY <2>1, <2>3, <3>2, <1>CleanContinue DEF BaseInv
  <2>4. CASE ~(\E r : Return(self, r)) /\ AddOpenIndex(self)
    <3> DEFINE idx == [index.val EXCEPT ![j.prj] = "available"]
               new == (index.val[j.prj] = "unlisted")
               locals == [j EXCEPT !.idx = idx, !.isNew = new]
    <3>1. j.op = "add" /\ Continue(self, "openVersions", locals)
      BY <2>4 DEF AddOpenIndex
    <3> HIDE DEF idx, new
    <3>2. locals.op = j.op /\ locals.prj = j.prj /\ locals.idx = idx /\ locals.isNew = new
      BY <2>1 DEF Jobs
    <3> HIDE DEF locals
    <3>3. ~Removing(j)
      BY <3>1 DEF Removing
    <3> QED
      BY <2>3, <3>1, <3>2, <3>3 DEF idx, new
  <2>5. CASE ~(\E r : Return(self, r)) /\ YankOpenIndex(self)
    <3>1. j.op = "yank" /\ Continue(self, "openVersions", j)
      BY <2>5 DEF YankOpenIndex
    <3>2. ~Removing(j) /\ j.op # "add"
      BY <3>1 DEF Removing
    <3> QED
      BY <2>3, <3>1, <3>2
  <2>6. CASE ~(\E r : Return(self, r)) /\ RemoveOpenIndex(self)
    <3> DEFINE idx == [index.val EXCEPT ![j.prj] = "removed"]
               locals == [j EXCEPT !.idx = idx]
    <3>1. /\ j.op \in {"removeVersion", "removeProject"} /\ index.val[j.prj] # "unlisted"
          /\ Continue(self, "openVersions", locals)
      BY <2>6 DEF RemoveOpenIndex
    <3> HIDE DEF idx
    <3>2. locals.op = j.op /\ locals.prj = j.prj /\ locals.idx = idx
      BY <2>1 DEF Jobs
    <3> HIDE DEF locals
    <3>3. j.op # "add"
      BY <3>1
    <3> QED
      BY <2>3, <3>1, <3>2, <3>3 DEF idx
  <2> QED
    BY <2>2, <2>4, <2>5, <2>6
<1>OpenedFile.
      ASSUME BaseInv, PlainDisk, NEW p \in Projects,
             versions' = [versions EXCEPT ![p] = OpenedVersions(p)],
             UNCHANGED <<index, dirs, files>>
      PROVE  PlainDisk' /\ versions'[p].val = OpenedVersions(p).val
  <2> USE <1>OpenedFile
  <2>1. OpenedVersions(p).kind # "json" => OpenedVersions(p).val = <<>>
    BY DEF OpenedVersions, PlainDisk, Blank
  <2>2. PlainDisk'
    BY <2>1, <1>PlainVersions
  <2> QED
    BY <2>2 DEF BaseInv, DiskInv
<1>SortedListed.
      ASSUME NEW s \in VersionsJson, StrictlyDescending(s), NEW v, Listed(s, v)
      PROVE  Listed(SortedDescending(s), v)
  <2> USE <1>SortedListed
  <2>1. PICK k \in DOMAIN s : s[k].version = v
    BY DEF Listed
  <2>2. PICK i \in DOMAIN SortedDescending(s) : SortedDescending(s)[i] = s[k]
    BY SortedList
  <2> QED
    BY <2>1, <2>2 DEF Listed
<1>CleanOpenVersions.
      ASSUME BaseInv, CleanInv, NEW self \in Procs,
             \A o \in Procs : o # self => pc[o] = "idle",
             AddOpenVersions(self) \/ YankOpenVersions(self) \/ RemoveOpenVersions(self)
      PROVE  CleanInv'
  <2> USE <1>CleanOpenVersions
  <2> DEFINE j == job[self]
             s == OpenedVersions(j.prj).val
  <2>1. /\ UNCHANGED <<index, dirs, files>> /\ pc[self] = "openVersions" /\ FromDisk(self)
        /\ j \in Jobs /\ j.prj \in Projects /\ PlainDisk
        /\ versions' = [versions EXCEPT ![j.prj] = OpenedVersions(j.prj)]
    BY JobFields DEF AddOpenVersions, YankOpenVersions, RemoveOpenVersions, BaseInv,
       CleanInv
  <2>2. PlainDisk' /\ versions'[j.prj].val = s
    BY <2>1, <1>OpenedFile
  <2>3. CASE \E r : Return(self, r)
    BY ZenonT(60), <2>2, <2>3, <1>CleanReturn DEF BaseInv
  <2>4. /\ j.op = "add" =>
              /\ j.idx = [index.val EXCEPT ![j.prj] = "available"]
              /\ j.isNew = (index.val[j.prj] = "unlisted")
        /\ Removing(j) =>
              /\ j.idx = [index.val EXCEPT ![j.prj] = "removed"]
              /\ index.val[j.prj] # "unlisted"
    BY <2>1 DEF FromDisk, InHand
  <2>5. ASSUME NEW label, NEW t, Continue(self, label, [j EXCEPT !.vers = t]),
               \/ /\ label = "mkdir" /\ j.op = "add" /\ ~Listed(s, j.ver)
                  /\ \A i \in DOMAIN s : Holds(t, s[i])
                  /\ \A k \in DOMAIN t : t[k] = NewEntry(j) \/ Holds(s, t[k])
               \/ /\ label = "truncVersions" /\ j.op = "yank"
                  /\ \E i \in DOMAIN s : /\ s[i].version = j.ver /\ s[i].status = "available"
                                         /\ t = SetStatus(s, i, "yanked")
               \/ label = "scan" /\ Removing(j) /\ t = s
        PROVE  CleanInv'
    <3> DEFINE locals == [j EXCEPT !.vers = t]
    <3>1. /\ locals.op = j.op /\ locals.prj = j.prj /\ locals.ver = j.ver
          /\ locals.idx = j.idx /\ locals.build = j.build /\ locals.vers = t
          /\ locals.isNew = j.isNew
      BY <2>1 DEF Jobs
    <3>2. Continue(self, label, locals)
      BY <2>5
    <3> HIDE DEF locals
    <3>3. /\ NewEntry(locals) = NewEntry(j) /\ Removing(locals) = Removing(j)
          /\ pc'[self] = label /\ job'[self] = locals /\ UNCHANGED index
      BY <2>1, <3>1, <3>2, ContinueValues DEF NewEntry, Removing, BaseInv
    <3>4. versions'[locals.prj].val = s
      BY <2>2, <3>1
    <3> HIDE DEF j, s
    <3>5. CASE label = "mkdir"
      <4>1. /\ j.op = "add" /\ ~Listed(s, j.ver)
            /\ \A i \in DOMAIN s : Holds(t, s[i])
            /\ \A k \in DOMAIN t : t[k] = NewEntry(j) \/ Holds(s, t[k])
        BY <2>5, <3>5
      <4>2. ~Removing(j)
        BY <4>1 DEF Removing
      <4> QED
        BY ZenonT(60), <2>2, <2>4, <3>1, <3>2, <3>3, <3>4, <3>5, <4>1, <4>2, <1>CleanContinue
        DEF BaseInv, FromDisk, InHand, FileNames
    <3>6. CASE label = "truncVersions"
      <4>1. /\ j.op = "yank"
            /\ \E i \in DOMAIN s : /\ s[i].version = j.ver /\ s[i].status = "available"
                                   /\ t = SetStatus(s, i, "yanked")
        BY <2>5, <3>6
      <4>2. ~Removing(j) /\ j.op # "add"
        BY <4>1 DEF Removing
      <4>3. FromDisk(self)'
        BY ZenonT(60), <3>1, <3>3, <3>4, <3>6, <4>1, <4>2 DEF FromDisk, InHand, FileNames
      <4> QED
        BY <2>2, <3>2, <4>3, <1>CleanContinue DEF BaseInv
    <3>7. CASE label = "scan"
      <4>1. Removing(j) /\ t = s
        BY <2>5, <3>7
      <4>2. j.op # "add"
        BY <4>1 DEF Removing
      <4>3. FromDisk(self)'
        BY ZenonT(60), <2>4, <3>1, <3>3, <3>4, <3>7, <4>1, <4>2 DEF FromDisk, InHand, FileNames
      <4> QED
        BY <2>2, <3>2, <4>3, <1>CleanContinue DEF BaseInv
    <3> QED
      BY <2>5, <3>5, <3>6, <3>7
  <2>6. CASE ~(\E r : Return(self, r)) /\ AddOpenVersions(self)
    <3> DEFINE u == SortedDescending(s)
               e == [version |-> j.ver, status |-> "available", build |-> j.build]
               t == InsertAt(u, InsertPosition(u, j.ver), e)
    <3>1. ~Listed(u, j.ver) /\ Continue(self, "mkdir", [j EXCEPT !.vers = t]) /\ j.op = "add"
      BY <2>6 DEF AddOpenVersions
    <3>2. s \in VersionsJson /\ StrictlyDescending(s)
      BY <2>1, OpenedType DEF BaseInv
    <3>3. ~Listed(s, j.ver)
      BY <3>1, <3>2, <1>SortedListed
    <3>4. /\ \A i \in DOMAIN s : Holds(t, s[i])
          /\ \A k \in DOMAIN t : t[k] = NewEntry(j) \/ Holds(s, t[k])
      BY ZenonT(60), <3>1, AddedList DEF NewEntry, Holds
    <3> HIDE DEF t
    <3> QED
      BY <2>5, <3>1, <3>3, <3>4
  <2>7. CASE ~(\E r : Return(self, r)) /\ YankOpenVersions(self)
    <3>1. /\ j.op = "yank"
          /\ \E i \in DOMAIN s :
                /\ s[i].version = j.ver /\ s[i].status = "available"
                /\ Continue(self, "truncVersions", [j EXCEPT !.vers = SetStatus(s, i, "yanked")])
      BY <2>7 DEF YankOpenVersions
    <3> QED
      BY <2>5, <3>1
  <2>8. CASE ~(\E r : Return(self, r)) /\ RemoveOpenVersions(self)
    <3>1. Removing(j) /\ Continue(self, "scan", [j EXCEPT !.vers = s])
      BY <2>8 DEF RemoveOpenVersions, Removing
    <3> QED
      BY <2>5, <3>1
  <2> QED
    BY <2>1, <2>3, <2>6, <2>7, <2>8
<1>CleanAddFiles.
      ASSUME BaseInv, SerialInv, CleanInv, NEW self \in Procs,
             \A o \in Procs : o # self => pc[o] = "idle",
             AddMkdir(self) \/ AddWriteFile(self)
      PROVE  CleanInv'
  <2> USE <1>CleanAddFiles
  <2> DEFINE j == job[self]
             s == versions[j.prj].val
  <2>1. /\ UNCHANGED <<index, versions>> /\ pc[self] \in {"mkdir"} \cup FileNames
        /\ FromDisk(self) /\ StepsOfCommand(self) /\ PlainDisk
        /\ j.prj \in Projects /\ j.ver \in Versions
        /\ files \in [Projects \X Versions \X FileNames -> FileContents]
    BY JobFields DEF AddMkdir, AddWriteFile, BaseInv, DiskInv, SerialInv, Progress, CleanInv
  <2>2. /\ j.op = "add" /\ ~Removing(j) /\ ~Listed(s, j.ver)
        /\ \A i \in DOMAIN s : Holds(j.vers, s[i])
        /\ \A k \in DOMAIN j.vers : j.vers[k] = NewEntry(j) \/ Holds(s, j.vers[k])
        /\ j.idx = [index.val EXCEPT ![j.prj] = "available"]
        /\ j.isNew = (index.val[j.prj] = "unlisted")
    <3>1. j.op = "add"
      BY <2>1 DEF StepsOfCommand
    <3>2. ~Removing(j)
      BY <3>1 DEF Removing
    <3>3. /\ pc[self] \in {"mkdir", "truncVersions"} \cup FileNames
          /\ pc[self] \notin {"idle", "openIndex", "writeIndex"}
      BY <2>1 DEF FileNames
    <3> QED
      BY <2>1, <3>1, <3>2, <3>3 DEF FromDisk, InHand
  <2>3. CASE AddMkdir(self)
    <3>1. CASE Return(self, "error") /\ UNCHANGED dirs
      <4>1. UNCHANGED disk
        BY <2>3, <3>1 DEF AddMkdir, disk
      <4> QED
        BY <2>1, <3>1, <4>1, <1>PlainSame, <1>CleanReturn DEF BaseInv
    <3>2. CASE /\ <<j.prj, j.ver>> \notin dirs /\ dirs' = dirs \cup {<<j.prj, j.ver>>}
               /\ Continue(self, "kpar", j)
      <4>1. UNCHANGED <<index, versions, files>> /\ pc'[self] = "kpar" /\ job'[self] = j
        BY <2>3, <3>2, ContinueValues DEF AddMkdir, BaseInv
      <4>2. PlainDisk'
        BY <2>1, <3>2, <4>1 DEF PlainDisk
      <4>3. \A f \in FileNames : files[<<j.prj, j.ver, f>>] = "none"
        BY <2>1, <3>2 DEF PlainDisk
      <4>4. "info" \in FileNames /\ "meta" \in FileNames
        BY DEF FileNames
      <4>5. FromDisk(self)'
        BY ZenonT(60), <2>2, <4>1, <4>3, <4>4 DEF FromDisk, InHand
      <4> QED
        BY <3>2, <4>2, <4>5, <1>CleanContinue DEF BaseInv
    <3> QED
      BY <2>3, <3>1, <3>2 DEF AddMkdir
  <2>4. CASE AddWriteFile(self)
    <3>1. CASE Return(self, "cleanupFailed") /\ UNCHANGED files
      <4>1. UNCHANGED disk
        BY <2>4, <3>1 DEF AddWriteFile, disk
      <4> QED
        BY <2>1, <3>1, <4>1, <1>PlainSame, <1>CleanReturn DEF BaseInv
    <3>2. CASE /\ <<j.prj, j.ver>> \in dirs
               /\ files' = [files EXCEPT ![<<j.prj, j.ver, pc[self]>>] = j.build]
               /\ Continue(self, FileStep[pc[self]], j)
      <4>1. /\ UNCHANGED <<index, versions, dirs>> /\ pc[self] \in FileNames
            /\ pc'[self] = FileStep[pc[self]] /\ job'[self] = j
        BY <2>4, <3>2, ContinueValues DEF AddWriteFile, BaseInv
      <4>2. PlainDisk'
        <5>1. \A p \in Projects, v \in Versions, f \in FileNames :
                 <<p, v>> \notin dirs => files'[<<p, v, f>>] = files[<<p, v, f>>]
          BY <2>1, <3>2, <4>1
        <5>2. \A p \in Projects, v \in Versions : <<p, v>> \notin dirs' =>
                 \A f \in FileNames : files'[<<p, v, f>>] = "none"
          <6> SUFFICES ASSUME NEW p \in Projects, NEW v \in Versions, <<p, v>> \notin dirs,
                              NEW f \in FileNames
                       PROVE  files'[<<p, v, f>>] = "none"
            BY <4>1
          <6>1. files[<<p, v, f>>] = "none"
            BY <2>1 DEF PlainDisk
          <6> QED
            BY <5>1, <6>1
        <5> QED
          BY <2>1, <4>1, <5>2 DEF PlainDisk
      <4>3. files[<<j.prj, j.ver, "meta">>] = "none"
        BY <2>1, <4>1 DEF FromDisk, InHand
      <4>4. CASE pc[self] \in {"kpar", "info"}
        <5>1. /\ pc'[self] \in {"info", "meta"}
              /\ files'[<<j.prj, j.ver, "meta">>] = files[<<j.prj, j.ver, "meta">>]
          BY SMTT(40), <2>1, <3>2, <4>1, <4>4 DEF FileStep, FileNames
        <5>2. /\ pc'[self] # "kpar"
              /\ pc'[self] \notin {"scan", "rmdir", "truncVersions", "writeVersions"}
          BY <5>1
        <5>3. FromDisk(self)'
          BY ZenonT(60), <2>1, <2>2, <4>1, <4>3, <5>1, <5>2 DEF FromDisk, InHand
        <5> QED
          BY <3>2, <4>2, <5>3, <1>CleanContinue DEF BaseInv
      <4>5. CASE pc[self] = "meta"
        <5>1. pc'[self] = "truncVersions" /\ "truncVersions" \notin FileNames
          BY SMT, <4>1, <4>5 DEF FileStep, FileNames
        <5>2. FromDisk(self)'
          BY ZenonT(60), <2>1, <2>2, <4>1, <5>1 DEF FromDisk, InHand
        <5> QED
          BY <3>2, <4>2, <5>2, <1>CleanContinue DEF BaseInv
      <4> QED
        BY <4>1, <4>4, <4>5 DEF FileNames
    <3> QED
      BY <2>4, <3>1, <3>2 DEF AddWriteFile
  <2> QED
    BY <2>3, <2>4
<1>CleanRemove.
      ASSUME BaseInv, SerialInv, CleanInv, NEW self \in Procs,
             \A o \in Procs : o # self => pc[o] = "idle",
             RemoveScan(self) \/ RemoveFile(self) \/ RemoveDir(self)
      PROVE  CleanInv'
  <2> USE <1>CleanRemove
  <2> DEFINE j == job[self]
             s == versions[j.prj].val
  <2>1. /\ UNCHANGED <<index, versions>> /\ pc[self] \in {"scan", "rmdir"}
        /\ FromDisk(self) /\ StepsOfCommand(self) /\ PlainDisk
        /\ j \in Jobs /\ j.prj \in Projects /\ j.ver \in Versions
        /\ s \in VersionsJson /\ j.next \in Nat \ {0}
        /\ files \in [Projects \X Versions \X FileNames -> FileContents]
    BY JobFields DEF RemoveScan, RemoveFile, RemoveDir, disk, BaseInv, DiskInv, SerialInv,
       Progress, CleanInv
  <2>2. /\ Removing(j) /\ j.vers = s /\ j.op # "add" /\ j.op # "yank"
        /\ j.idx = [index.val EXCEPT ![j.prj] = "removed"]
        /\ index.val[j.prj] # "unlisted"
        /\ pc[self] = "rmdir" => Listed(s, j.ver)
    <3>1. Removing(j)
      BY <2>1 DEF StepsOfCommand
    <3>2. j.op # "add" /\ j.op # "yank"
      BY <3>1 DEF Removing
    <3>3. pc[self] \notin {"idle", "openIndex", "writeIndex"}
      BY <2>1
    <3> QED
      BY <2>1, <3>1, <3>2, <3>3 DEF FromDisk, InHand
  <2>3. CASE RemoveFile(self)
    <3>1. PICK f \in FileNames :
             files' = [files EXCEPT ![<<j.prj, j.ver, f>>] = "none"]
      BY <2>3 DEF RemoveFile
    <3>2. UNCHANGED <<pc, job, dirs>> /\ pc[self] = "rmdir"
      BY <2>3 DEF RemoveFile
    <3>3. \A p \in Projects, v \in Versions, g \in FileNames :
             files'[<<p, v, g>>] \in {files[<<p, v, g>>], "none"}
      BY <2>1, <3>1
    <3>4. PlainDisk'
      <4>1. \A p \in Projects, v \in Versions : <<p, v>> \notin dirs' =>
               \A g \in FileNames : files'[<<p, v, g>>] = "none"
        <5> SUFFICES ASSUME NEW p \in Projects, NEW v \in Versions, <<p, v>> \notin dirs,
                            NEW g \in FileNames
                     PROVE  files'[<<p, v, g>>] = "none"
          BY <3>2
        <5>1. files[<<p, v, g>>] = "none"
          BY <2>1 DEF PlainDisk
        <5>2. files'[<<p, v, g>>] \in {files[<<p, v, g>>], "none"}
          BY <3>3
        <5> QED
          BY <5>1, <5>2
      <4> QED
        BY <2>1, <3>2, <4>1 DEF PlainDisk
    <3>5. FromDisk(self)'
      BY <2>1, <2>2, <3>2 DEF FromDisk, InHand, FileNames
    <3> QED
      BY <3>2, <3>4, <3>5, <1>CleanFrame
  <2>4. CASE RemoveDir(self)
    <3>1. CASE Return(self, "error") /\ UNCHANGED dirs
      <4>1. UNCHANGED disk
        BY <2>4, <3>1 DEF RemoveDir, disk
      <4> QED
        BY <2>1, <3>1, <4>1, <1>PlainSame, <1>CleanReturn DEF BaseInv
    <3>2. CASE /\ \A f \in FileNames : files[<<j.prj, j.ver, f>>] = "none"
               /\ dirs' = dirs \ {<<j.prj, j.ver>>}
               /\ Continue(self, "scan", j)
      <4>1. UNCHANGED files /\ pc'[self] = "scan" /\ job'[self] = j
        BY <2>4, <3>2, ContinueValues DEF RemoveDir, BaseInv
      <4>2. PlainDisk'
        <5>1. \A p \in Projects, v \in Versions : <<p, v>> \notin dirs' =>
                 \A g \in FileNames : files'[<<p, v, g>>] = "none"
          <6> SUFFICES ASSUME NEW p \in Projects, NEW v \in Versions, <<p, v>> \notin dirs',
                              NEW g \in FileNames
                       PROVE  files[<<p, v, g>>] = "none"
            BY <4>1
          <6>1. CASE <<p, v>> \in dirs
            <7>1. p = j.prj /\ v = j.ver
              BY <3>2, <6>1
            <7> QED
              BY <3>2, <7>1
          <6>2. CASE <<p, v>> \notin dirs
            BY <2>1, <6>2 DEF PlainDisk
          <6> QED
            BY <6>1, <6>2
        <5> QED
          BY <2>1, <5>1 DEF PlainDisk
      <4>3. FromDisk(self)'
        BY <2>1, <2>2, <4>1 DEF FromDisk, InHand, FileNames
      <4> QED
        BY <3>2, <4>2, <4>3, <1>CleanContinue DEF BaseInv
    <3> QED
      BY <2>4, <3>1, <3>2 DEF RemoveDir
  <2>5. CASE RemoveScan(self)
    <3> DEFINE todo == {i \in j.next..Len(j.vers) : ToRemove(j, i)}
    <3>1. UNCHANGED disk /\ PlainDisk'
      BY <2>1, <2>5, <1>PlainSame DEF RemoveScan
    <3>2. CASE \E r : Return(self, r)
      BY <3>1, <3>2, <1>CleanReturn DEF BaseInv
    <3>3. CASE Continue(self, "truncIndex", j)
      <4>1. pc'[self] = "truncIndex" /\ job'[self] = j
        BY <3>3, ContinueValues DEF BaseInv
      <4>2. FromDisk(self)'
        BY <2>1, <2>2, <4>1 DEF FromDisk, InHand, FileNames
      <4> QED
        BY <3>1, <3>3, <4>2, <1>CleanContinue DEF BaseInv
    <3>4. ASSUME NEW i \in todo, NEW n,
                 Continue(self, "truncVersions",
                    [j EXCEPT !.vers = SetStatus(j.vers, i, "removed"),
                              !.ver = j.vers[i].version, !.next = n])
          PROVE  CleanInv'
      <4>1. i \in DOMAIN s /\ s[i].status # "removed"
        <5>1. i \in 1..Len(s)
          BY SMTT(40), <2>1, <2>2, ListFacts
        <5> QED
          BY ZenonT(60), <2>1, <2>2, <5>1, ListFacts DEF ToRemove
      <4> DEFINE t == SetStatus(s, i, "removed")
                 v == s[i].version
                 locals == [j EXCEPT !.vers = t, !.ver = v, !.next = n]
      <4>2. Continue(self, "truncVersions", locals)
        BY <2>2, <3>4
      <4> HIDE DEF t, v
      <4>3. /\ locals.op = j.op /\ locals.prj = j.prj /\ locals.ver = v
            /\ locals.idx = j.idx /\ locals.vers = t
        BY <2>1 DEF Jobs
      <4> HIDE DEF locals
      <4>4. Removing(locals) = Removing(j) /\ pc'[self] = "truncVersions" /\ job'[self] = locals
        BY <4>2, <4>3, ContinueValues DEF Removing, BaseInv
      <4>5. versions'[locals.prj].val = s
        BY <2>1, <4>3
      <4> HIDE DEF s, j
      <4>6. \E k \in DOMAIN s : /\ s[k].version = v /\ s[k].status # "removed"
                               /\ t = SetStatus(s, k, "removed")
        BY <4>1 DEF t, v
      <4>7. locals.op # "add" /\ locals.op # "yank" /\ Removing(locals)
        BY <2>2, <4>3, <4>4
      <4>8. /\ locals.idx = [index'.val EXCEPT ![locals.prj] = "removed"]
            /\ index'.val[locals.prj] # "unlisted"
        BY <2>1, <2>2, <4>3
      <4>9. FromDisk(self)'
        BY <4>3, <4>4, <4>5, <4>6, <4>7, <4>8 DEF FromDisk, InHand, FileNames
      <4> QED
        BY <3>1, <4>2, <4>9, <1>CleanContinue DEF BaseInv
    <3> QED
      BY <2>5, <3>2, <3>3, <3>4 DEF RemoveScan
  <2> QED
    BY <2>3, <2>4, <2>5
<1>CleanWrites.
      ASSUME BaseInv, SerialInv, PublishInv, CleanInv, NEW self \in Procs,
             \A o \in Procs : o # self => pc[o] = "idle",
             \/ TruncVersions(self) \/ WriteVersions(self)
             \/ TruncIndex(self) \/ WriteIndex(self)
      PROVE  CleanInv'
  <2> USE <1>CleanWrites
  <2> DEFINE j == job[self]
             s == versions[j.prj].val
  <2>1. /\ FromDisk(self) /\ PlainDisk /\ j.prj \in Projects /\ s \in VersionsJson
        /\ versions \in [Projects -> [kind: FileKind, val: VersionsJson]]
    BY JobFields DEF BaseInv, DiskInv, CleanInv
  <2>2. CASE TruncVersions(self)
    <3>1. /\ pc[self] = "truncVersions" /\ UNCHANGED <<index, dirs, files>>
          /\ versions' = [versions EXCEPT ![j.prj] = Blank("empty", <<>>)]
          /\ Continue(self, "writeVersions", j)
      BY <2>2 DEF TruncVersions
    <3>2. PlainDisk' /\ pc'[self] = "writeVersions" /\ job'[self] = j
      BY <2>1, <3>1, <1>PlainVersions, ContinueValues DEF Blank, BaseInv
    <3>3. Removing(j) => Listed(j.vers, j.ver)
      <4> SUFFICES ASSUME Removing(j) PROVE Listed(j.vers, j.ver)
        OBVIOUS
      <4>1. j.op # "add" /\ j.op # "yank"
        BY DEF Removing
      <4>2. PICK i \in DOMAIN s : s[i].version = j.ver /\ j.vers = SetStatus(s, i, "removed")
        BY <2>1, <3>1, <4>1 DEF FromDisk, InHand
      <4>3. "removed" \in VersionStatus
        BY DEF VersionStatus
      <4>4. i \in DOMAIN j.vers /\ j.vers[i].version = j.ver
        <5> HIDE DEF s, j
        <5>1. /\ DOMAIN SetStatus(s, i, "removed") = DOMAIN s
              /\ SetStatus(s, i, "removed")[i].version = s[i].version
          BY SMTT(40), <2>1, <4>2, <4>3, RestatusedList
        <5> QED
          BY <4>2, <5>1
      <4> QED
        BY <4>4 DEF Listed
    <3>4. FromDisk(self)'
      BY ZenonT(60), <2>1, <3>1, <3>2, <3>3 DEF FromDisk, InHand, FileNames
    <3> QED
      BY <3>1, <3>2, <3>4, <1>CleanContinue DEF BaseInv
  <2>3. CASE WriteVersions(self)
    <3>1. /\ pc[self] = "writeVersions" /\ UNCHANGED <<index, dirs, files>>
          /\ versions' = [versions EXCEPT ![j.prj] = Json(j.vers)]
      BY <2>3, WrittenVersions DEF WriteVersions
    <3>2. PlainDisk' /\ versions'[j.prj].val = j.vers
      BY <2>1, <3>1, <1>PlainVersions DEF Json
    <3>3. CASE \E r : Return(self, r)
      BY <3>2, <3>3, <1>CleanReturn DEF BaseInv
    <3>4. ASSUME NEW label, Continue(self, label, j),
                 \/ label = "truncIndex"
                 \/ label = "rmdir" /\ Removing(j)
          PROVE  CleanInv'
      <4>1. pc'[self] = label /\ job'[self] = j
        BY <3>4, ContinueValues DEF BaseInv
      <4>2. FromDisk(self)'
        BY ZenonT(60), <2>1, <3>1, <3>2, <3>4, <4>1 DEF FromDisk, InHand, FileNames
      <4> QED
        BY <3>2, <3>4, <4>2, <1>CleanContinue DEF BaseInv
    <3> QED
      BY <2>3, <3>3, <3>4 DEF WriteVersions, Removing
  <2>4. CASE TruncIndex(self)
    <3>1. /\ UNCHANGED <<versions, dirs, files>> /\ index' = Blank("empty", NoProjects)
          /\ Continue(self, "writeIndex", j)
      BY <2>4 DEF TruncIndex
    <3>2. PlainDisk' /\ pc'[self] = "writeIndex"
      BY <2>1, <3>1, <1>PlainIndex, ContinueValues DEF Blank, BaseInv
    <3>3. FromDisk(self)'
      BY <3>2 DEF FromDisk, InHand, FileNames
    <3> QED
      BY <3>1, <3>2, <3>3, <1>CleanContinue DEF BaseInv
  <2>5. CASE WriteIndex(self)
    <3>1. UNCHANGED <<versions, dirs, files>> /\ index' = Json(j.idx) /\ Return(self, "ok")
      BY <2>5, WrittenIndex DEF WriteIndex
    <3>2. PlainDisk'
      BY <2>1, <3>1, <1>PlainIndex DEF Json
    <3> QED
      BY <3>1, <3>2, <1>CleanReturn DEF BaseInv
  <2> QED
    BY <2>2, <2>3, <2>4, <2>5
<1>1. CASE UNCHANGED vars
  <2>1. UNCHANGED <<index, versions, dirs, files, pc, job>>
    BY <1>1 DEF vars
  <2>2. PlainDisk'
    BY <2>1 DEF CleanInv, PlainDisk
  <2> QED
    BY <2>1, <2>2 DEF CleanInv, FromDisk
<1>2. CASE CleanNext
  <2>1. PICK self \in Procs : SerialStart(self) \/ Step(self)
    BY <1>2 DEF CleanNext
  <2>2. CASE SerialStart(self)
    BY <2>2, <1>CleanStarts
  <2>3. CASE Step(self)
    <3>1. \A o \in Procs : o # self => pc[o] = "idle"
      BY <2>3, StepIsOfRunning DEF SerialInv, Exclusive
    <3> QED
      BY <2>3, <3>1, <1>CleanOpenIndex, <1>CleanOpenVersions, <1>CleanAddFiles, <1>CleanRemove,
         <1>CleanWrites DEF Step
  <2> QED
    BY <2>1, <2>2, <2>3
<1> QED
  BY <1>1, <1>2

-----------------------------------------------------------------------------
(* Their steps as operations of IndexProtocol *)

LEMMA ServedNot ==
    ASSUME NEW p, NEW v, NEW f \in FileNames, files[<<p, v, f>>] = "none"
    PROVE  ServedBuild(p, v) = "none"
<1>1. "none" \notin Builds
  BY BuildsAssumption
<1> QED
  BY <1>1 DEF ServedBuild

LEMMA MappedInit == Init => Protocol!Init
<1> SUFFICES ASSUME Init PROVE Protocol!Init
  OBVIOUS
<1>1. /\ index.val = NoProjects /\ \A p \in Projects : versions[p].val = <<>>
      /\ \A self \in Procs : pc[self] = "idle"
  BY DEF Init, NothingAdded, Blank
<1>2. Writers("writeIndex") = {} /\ Writers("writeVersions") = {}
  BY <1>1 DEF Writers
<1>3. LogicalIndex = [p \in Projects |-> "unlisted"]
  BY <1>1, <1>2 DEF LogicalIndex, NoProjects
<1>4. ASSUME NEW p \in Projects, NEW v \in Versions
      PROVE  /\ EntryOf(LogicalVersions(p), v) = [status |-> "unlisted", build |-> "none"]
             /\ ServedBuild(p, v) = "none"
  <2>1. LogicalVersions(p) = <<>>
    BY <1>1, <1>2 DEF LogicalVersions
  <2>2. ~Listed(<<>>, v)
    BY SMT DEF Listed
  <2>3. EntryOf(LogicalVersions(p), v) = [status |-> "unlisted", build |-> "none"]
    BY <2>1, <2>2 DEF EntryOf
  <2>4. "meta" \in FileNames
    BY DEF FileNames
  <2>5. files[<<p, v, "meta">>] = "none"
    BY <2>4 DEF Init, NothingAdded
  <2> QED
    BY <2>3, <2>4, <2>5, ServedNot
<1>5. LogicalEntries =
         [p \in Projects |-> [v \in Versions |-> [status |-> "unlisted", build |-> "none"]]]
  BY <1>4 DEF LogicalEntries
<1>6. ServedBuilds = [p \in Projects |-> [v \in Versions |-> "none"]]
  BY <1>4 DEF ServedBuilds
<1> QED
  BY <1>3, <1>5, <1>6 DEF Protocol!Init, Protocol!Unlisted

LEMMA MappedNext ==
    ASSUME BaseInv, SerialInv, PublishInv, CleanInv, [CleanNext]_vars
    PROVE  [Protocol!Next]_(Protocol!vars)
\* With at most one command running, a JSON file is being written by it or by
\* nobody.
<1>LogicalNow.
      ASSUME NEW self \in Procs, \A o \in Procs : o # self => pc[o] = "idle"
      PROVE  /\ LogicalIndex = IF pc[self] = "writeIndex" THEN job[self].idx ELSE index.val
             /\ \A p \in Projects : LogicalVersions(p) =
                   IF pc[self] = "writeVersions" /\ job[self].prj = p
                   THEN job[self].vers ELSE versions[p].val
  <2> USE <1>LogicalNow
  <2>1. \A label : label # "idle" =>
           Writers(label) = IF pc[self] = label THEN {self} ELSE {}
    BY DEF Writers
  <2>2. Writers("writeIndex") = IF pc[self] = "writeIndex" THEN {self} ELSE {}
    BY <2>1
  <2>3. Writers("writeVersions") = IF pc[self] = "writeVersions" THEN {self} ELSE {}
    BY <2>1
  <2>4. LogicalIndex = IF pc[self] = "writeIndex" THEN job[self].idx ELSE index.val
    BY SMT, <2>2 DEF LogicalIndex
  <2>5. ASSUME NEW p \in Projects
        PROVE  LogicalVersions(p) = IF pc[self] = "writeVersions" /\ job[self].prj = p
                                    THEN job[self].vers ELSE versions[p].val
    BY SMT, <2>3 DEF LogicalVersions
  <2> QED
    BY <2>4, <2>5
<1>LogicalNext.
      ASSUME NEW self \in Procs, \A o \in Procs : o # self => pc'[o] = "idle"
      PROVE  /\ LogicalIndex' = IF pc'[self] = "writeIndex" THEN job'[self].idx ELSE index'.val
             /\ \A p \in Projects : LogicalVersions(p)' =
                   IF pc'[self] = "writeVersions" /\ job'[self].prj = p
                   THEN job'[self].vers ELSE versions'[p].val
  <2> USE <1>LogicalNext
  <2>1. \A label : label # "idle" =>
           Writers(label)' = IF pc'[self] = label THEN {self} ELSE {}
    BY DEF Writers
  <2>2. Writers("writeIndex")' = IF pc'[self] = "writeIndex" THEN {self} ELSE {}
    BY <2>1
  <2>3. Writers("writeVersions")' = IF pc'[self] = "writeVersions" THEN {self} ELSE {}
    BY <2>1
  <2>4. LogicalIndex' = IF pc'[self] = "writeIndex" THEN job'[self].idx ELSE index'.val
    BY SMT, <2>2 DEF LogicalIndex
  <2>5. ASSUME NEW p \in Projects
        PROVE  LogicalVersions(p)' = IF pc'[self] = "writeVersions" /\ job'[self].prj = p
                                     THEN job'[self].vers ELSE versions'[p].val
    BY SMT, <2>3 DEF LogicalVersions
  <2> QED
    BY <2>4, <2>5
<1>EntryAt.
      ASSUME NEW s \in VersionsJson, StrictlyDescending(s), NEW i \in DOMAIN s
      PROVE  EntryOf(s, s[i].version) = [status |-> s[i].status, build |-> s[i].build]
  <2> USE <1>EntryAt
  <2>1. \A k \in DOMAIN s : s[k].version = s[i].version => k = i
    BY SMT, ListFacts DEF StrictlyDescending
  <2>2. (CHOOSE k \in DOMAIN s : s[k].version = s[i].version) = i
    BY <2>1
  <2>3. Listed(s, s[i].version)
    BY DEF Listed
  <2> QED
    BY <2>2, <2>3 DEF EntryOf
<1>EntrySame.
      ASSUME NEW s \in VersionsJson, StrictlyDescending(s),
             NEW t \in VersionsJson, StrictlyDescending(t), NEW v,
             \A i \in DOMAIN s : s[i].version = v => Holds(t, s[i]),
             \A k \in DOMAIN t : t[k].version = v => Holds(s, t[k])
      PROVE  EntryOf(t, v) = EntryOf(s, v)
  <2> USE <1>EntrySame
  <2>1. CASE Listed(s, v)
    <3>1. PICK i \in DOMAIN s : s[i].version = v
      BY <2>1 DEF Listed
    <3>2. PICK k \in DOMAIN t : t[k] = s[i]
      BY <3>1 DEF Holds
    <3>3. EntryOf(s, s[i].version) = [status |-> s[i].status, build |-> s[i].build]
      BY <1>EntryAt
    <3>4. EntryOf(t, t[k].version) = [status |-> t[k].status, build |-> t[k].build]
      BY <1>EntryAt
    <3> QED
      BY <3>1, <3>2, <3>3, <3>4
  <2>2. CASE ~Listed(s, v)
    <3>1. ~Listed(t, v)
      BY <2>2 DEF Listed, Holds
    <3> QED
      BY <2>2, <3>1 DEF EntryOf
  <2> QED
    BY <2>1, <2>2
<1>RestatusedKeepsOrder.
      ASSUME NEW s \in VersionsJson, StrictlyDescending(s), NEW i \in DOMAIN s,
             NEW st \in VersionStatus
      PROVE  StrictlyDescending(SetStatus(s, i, st))
  BY <1>RestatusedKeepsOrder, RestatusedList DEF StrictlyDescending
<1>EntryRestatused.
      ASSUME NEW s \in VersionsJson, StrictlyDescending(s), NEW i \in DOMAIN s,
             NEW st \in VersionStatus
      PROVE  LET t == SetStatus(s, i, st) IN
             /\ EntryOf(t, s[i].version) = [status |-> st, build |-> s[i].build]
             /\ \A w : w # s[i].version => EntryOf(t, w) = EntryOf(s, w)
  <2> USE <1>EntryRestatused
  <2> DEFINE t == SetStatus(s, i, st)
  <2>1. /\ t \in VersionsJson /\ DOMAIN t = DOMAIN s /\ StrictlyDescending(t)
        /\ t[i].status = st /\ t[i].version = s[i].version /\ t[i].build = s[i].build
        /\ \A k \in DOMAIN s : t[k].version = s[k].version /\ (k # i => t[k] = s[k])
    BY SMT, RestatusedList, <1>RestatusedKeepsOrder
  <2> HIDE DEF t
  <2>2. EntryOf(t, t[i].version) = [status |-> t[i].status, build |-> t[i].build]
    BY <2>1, <1>EntryAt
  <2>3. ASSUME NEW w, w # s[i].version
        PROVE  EntryOf(t, w) = EntryOf(s, w)
    <3>1. ASSUME NEW k \in DOMAIN s, s[k].version = w PROVE Holds(t, s[k])
      BY <2>1, <2>3, <3>1 DEF Holds
    <3>2. ASSUME NEW k \in DOMAIN t, t[k].version = w PROVE Holds(s, t[k])
      BY <2>1, <2>3, <3>2 DEF Holds
    <3> QED
      BY <2>1, <3>1, <3>2, <1>EntrySame
  <2> QED
    BY <2>1, <2>2, <2>3 DEF t
<1>SameEntries.
      ASSUME \A p \in Projects : LogicalVersions(p)' = LogicalVersions(p)
      PROVE  LogicalEntries' = LogicalEntries
  BY <1>SameEntries DEF LogicalEntries
<1>SameServed.
      ASSUME UNCHANGED files
      PROVE  ServedBuilds' = ServedBuilds
  BY <1>SameServed DEF ServedBuilds, ServedBuild
<1>ChangedEntry.
      ASSUME NEW p0 \in Projects, NEW v0 \in Versions, NEW e,
             EntryOf(LogicalVersions(p0)', v0) = e,
             \A w \in Versions : w # v0 =>
                EntryOf(LogicalVersions(p0)', w) = EntryOf(LogicalVersions(p0), w),
             \A p \in Projects : p # p0 => LogicalVersions(p)' = LogicalVersions(p)
      PROVE  LogicalEntries' = [LogicalEntries EXCEPT ![p0][v0] = e]
  <2> USE <1>ChangedEntry
  <2>1. LogicalEntries' =
           [p \in Projects |-> [v \in Versions |-> EntryOf(LogicalVersions(p)', v)]]
    BY DEF LogicalEntries
  <2>2. LogicalEntries =
           [p \in Projects |-> [v \in Versions |-> EntryOf(LogicalVersions(p), v)]]
    BY DEF LogicalEntries
  <2> DEFINE f == [LogicalEntries EXCEPT ![p0][v0] = e]
  <2>3. f = [p \in Projects |->
                IF p = p0 THEN [LogicalEntries[p0] EXCEPT ![v0] = e] ELSE LogicalEntries[p]]
    BY <2>2
  <2>4. [LogicalEntries[p0] EXCEPT ![v0] = e] =
           [v \in Versions |-> EntryOf(LogicalVersions(p0)', v)]
    BY <2>2
  <2>5. ASSUME NEW p \in Projects, p # p0
        PROVE  LogicalEntries[p] = [v \in Versions |-> EntryOf(LogicalVersions(p)', v)]
    BY <2>2, <2>5
  <2> QED
    BY SMT, <2>1, <2>3, <2>4, <2>5
<1>ServedIs.
      ASSUME NEW p, NEW v, NEW b \in Builds, \A f \in FileNames : files[<<p, v, f>>] = b
      PROVE  ServedBuild(p, v) = b
  <2> USE <1>ServedIs
  <2>1. \A c : (\A f \in FileNames : files[<<p, v, f>>] = c) => c = b
    BY DEF FileNames
  <2> QED
    BY <2>1 DEF ServedBuild
<1>ServedNextIs.
      ASSUME NEW p, NEW v, NEW b \in Builds, \A f \in FileNames : files'[<<p, v, f>>] = b
      PROVE  ServedBuild(p, v)' = b
  <2> USE <1>ServedNextIs
  <2>1. \A c : (\A f \in FileNames : files'[<<p, v, f>>] = c) => c = b
    BY DEF FileNames
  <2> QED
    BY <2>1 DEF ServedBuild
<1>ServedNextNot.
      ASSUME NEW p, NEW v, NEW f \in FileNames, files'[<<p, v, f>>] = "none"
      PROVE  ServedBuild(p, v)' = "none"
  <2> USE <1>ServedNextNot
  <2>1. "none" \notin Builds
    BY BuildsAssumption
  <2> QED
    BY <2>1 DEF ServedBuild
<1>OneFileChanged.
      ASSUME BaseInv, NEW p0 \in Projects, NEW v0 \in Versions, NEW g \in FileNames, NEW c,
             files' = [files EXCEPT ![<<p0, v0, g>>] = c]
      PROVE  /\ files'[<<p0, v0, g>>] = c
             /\ \A f \in FileNames : f # g => files'[<<p0, v0, f>>] = files[<<p0, v0, f>>]
             /\ \A p \in Projects, v \in Versions : p # p0 \/ v # v0 =>
                   ServedBuild(p, v)' = ServedBuild(p, v)
  <2> USE <1>OneFileChanged
  <2>1. files \in [Projects \X Versions \X FileNames -> FileContents]
    BY DEF BaseInv, DiskInv
  <2>2. /\ files'[<<p0, v0, g>>] = c
        /\ \A f \in FileNames : f # g => files'[<<p0, v0, f>>] = files[<<p0, v0, f>>]
    BY <2>1
  <2>3. ASSUME NEW p \in Projects, NEW v \in Versions, p # p0 \/ v # v0
        PROVE  ServedBuild(p, v)' = ServedBuild(p, v)
    <3>1. \A f \in FileNames : files'[<<p, v, f>>] = files[<<p, v, f>>]
      BY <2>1, <2>3
    <3>2. \A b : (\A f \in FileNames : files'[<<p, v, f>>] = b) <=>
                 (\A f \in FileNames : files[<<p, v, f>>] = b)
      BY <3>1
    <3> QED
      BY <3>2 DEF ServedBuild
  <2> QED
    BY <2>2, <2>3
<1>ChangedServed.
      ASSUME NEW p0 \in Projects, NEW v0 \in Versions, NEW b, ServedBuild(p0, v0)' = b,
             \A p \in Projects, v \in Versions : p # p0 \/ v # v0 =>
                ServedBuild(p, v)' = ServedBuild(p, v)
      PROVE  ServedBuilds' = [ServedBuilds EXCEPT ![p0][v0] = b]
  <2> USE <1>ChangedServed
  <2>1. /\ ServedBuilds' = [p \in Projects |-> [v \in Versions |-> ServedBuild(p, v)']]
        /\ ServedBuilds = [p \in Projects |-> [v \in Versions |-> ServedBuild(p, v)]]
    BY DEF ServedBuilds
  <2>2. [ServedBuilds EXCEPT ![p0][v0] = b] =
           [p \in Projects |->
               IF p = p0 THEN [ServedBuilds[p0] EXCEPT ![v0] = b] ELSE ServedBuilds[p]]
    BY <2>1
  <2>3. [ServedBuilds[p0] EXCEPT ![v0] = b] = [v \in Versions |-> ServedBuild(p0, v)']
    BY <2>1
  <2>4. ASSUME NEW p \in Projects, p # p0
        PROVE  ServedBuilds[p] = [v \in Versions |-> ServedBuild(p, v)']
    BY <2>1, <2>4
  <2> QED
    BY SMTT(40), <2>1, <2>2, <2>3, <2>4
<1>SameServedBuilds.
      ASSUME \A p \in Projects, v \in Versions : ServedBuild(p, v)' = ServedBuild(p, v)
      PROVE  ServedBuilds' = ServedBuilds
  BY <1>SameServedBuilds DEF ServedBuilds
\* Steps that leave the values of the JSON files and the archives as they are.
<1>QuietStep.
      ASSUME NEW self \in Procs,
             \A o \in Procs : o # self => pc[o] = "idle" /\ pc'[o] = "idle",
             pc[self] # "writeIndex", pc[self] # "writeVersions",
             pc'[self] # "writeIndex", pc'[self] # "writeVersions",
             index'.val = index.val, \A p \in Projects : versions'[p].val = versions[p].val
      PROVE  LogicalIndex' = LogicalIndex /\ LogicalEntries' = LogicalEntries
  <2> USE <1>QuietStep
  <2>1. LogicalIndex' = LogicalIndex
    BY <1>LogicalNow, <1>LogicalNext
  <2>2. ASSUME NEW p \in Projects PROVE LogicalVersions(p)' = LogicalVersions(p)
    <3>1. LogicalVersions(p) = versions[p].val
      BY <1>LogicalNow
    <3>2. LogicalVersions(p)' = versions'[p].val
      BY <1>LogicalNext
    <3> QED
      BY <3>1, <3>2
  <2> QED
    BY <2>1, <2>2, <1>SameEntries
<1>OthersStayIdle.
      ASSUME BaseInv, NEW self \in Procs, \A o \in Procs : o # self => pc[o] = "idle",
             \/ \E r : Return(self, r)
             \/ \E label, locals : Continue(self, label, locals)
             \/ UNCHANGED pc
      PROVE  \A o \in Procs : o # self => pc[o] = "idle" /\ pc'[o] = "idle"
  <2> USE <1>OthersStayIdle
  <2>1. pc \in [Procs -> Labels]
    BY DEF BaseInv, ControlInv
  <2> QED
    BY <2>1 DEF Return, Continue, Goto
<1>MappedStarts.
      ASSUME BaseInv, CleanInv, NEW self \in Procs, SerialStart(self)
      PROVE  UNCHANGED Protocol!vars
  <2> USE <1>MappedStarts
  <2>1. /\ \A o \in Procs : o # self => pc[o] = "idle"
        /\ pc[self] = "idle" /\ pc \in [Procs -> Labels]
    BY DEF SerialStart, AllIdle, BaseInv, ControlInv
  <2>2. CASE \E locals : Begin(self, locals)
    <3>1. PICK locals : Begin(self, locals)
      BY <2>2
    <3>2. pc'[self] = "openIndex" /\ Continue(self, "openIndex", locals) /\ UNCHANGED disk
      BY <3>1, ContinueValues DEF BaseInv, Begin
    <3>3. \A o \in Procs : o # self => pc[o] = "idle" /\ pc'[o] = "idle"
      BY <2>1, <3>2, <1>OthersStayIdle
    <3>4. LogicalIndex' = LogicalIndex /\ LogicalEntries' = LogicalEntries
      BY <2>1, <3>2, <3>3, <1>QuietStep DEF disk
    <3>5. ServedBuilds' = ServedBuilds
      BY <3>2, <1>SameServed DEF disk
    <3> QED
      BY <3>4, <3>5 DEF Protocol!vars
  <2>3. CASE BeginInit(self)
    <3>1. ServedBuilds' = ServedBuilds
      BY <2>3, <1>SameServed DEF BeginInit
    <3>2. CASE Return(self, "error") /\ UNCHANGED index
      <4>1. UNCHANGED <<index, versions>> /\ pc'[self] = "idle"
        BY <2>1, <2>3, <3>2 DEF BeginInit, Return, Goto
      <4>2. \A o \in Procs : o # self => pc[o] = "idle" /\ pc'[o] = "idle"
        BY <2>1, <3>2, <1>OthersStayIdle
      <4>3. LogicalIndex' = LogicalIndex /\ LogicalEntries' = LogicalEntries
        BY <2>1, <4>1, <4>2, <1>QuietStep
      <4> QED
        BY <3>1, <4>3 DEF Protocol!vars
    <3>3. CASE /\ index.kind = "absent" /\ Continue(self, "writeIndex", NoJob)
               /\ index' = Blank("empty", NoProjects)
      <4>1. /\ UNCHANGED versions /\ pc'[self] = "writeIndex" /\ job'[self] = NoJob
            /\ index.val = NoProjects
        BY <2>3, <3>3, ContinueValues DEF BeginInit, BaseInv, CleanInv, PlainDisk
      <4>2. \A o \in Procs : o # self => pc[o] = "idle" /\ pc'[o] = "idle"
        BY <2>1, <3>3, <1>OthersStayIdle
      <4>3. NoJob.idx = NoProjects
        BY DEF NoJob
      <4>4. LogicalIndex' = LogicalIndex
        BY ZenonT(60), <2>1, <4>1, <4>2, <4>3, <1>LogicalNow, <1>LogicalNext
      <4>5. \A p \in Projects : LogicalVersions(p)' = LogicalVersions(p)
        BY ZenonT(60), <2>1, <4>1, <4>2, <1>LogicalNow, <1>LogicalNext
      <4> QED
        BY <3>1, <4>4, <4>5, <1>SameEntries DEF Protocol!vars
    <3> QED
      BY <2>3, <3>2, <3>3 DEF BeginInit
  <2> QED
    BY <2>2, <2>3 DEF SerialStart, Start, StartPublish, StartRemove, BeginAdd, BeginYank,
       BeginRemoveVersion, BeginRemoveProject
<1>MappedQuietSteps.
      ASSUME BaseInv, CleanInv, NEW self \in Procs,
             \A o \in Procs : o # self => pc[o] = "idle",
             \/ AddOpenIndex(self) \/ YankOpenIndex(self) \/ RemoveOpenIndex(self)
             \/ AddOpenVersions(self) \/ YankOpenVersions(self) \/ RemoveOpenVersions(self)
             \/ AddMkdir(self) \/ RemoveScan(self) \/ RemoveDir(self)
      PROVE  UNCHANGED Protocol!vars
  <2> USE <1>MappedQuietSteps
  <2> DEFINE j == job[self]
  <2>1. /\ UNCHANGED <<index, files>> /\ j.prj \in Projects
        /\ versions \in [Projects -> [kind: FileKind, val: VersionsJson]]
    BY JobFields DEF AddOpenIndex, YankOpenIndex, RemoveOpenIndex, AddOpenVersions,
       YankOpenVersions, RemoveOpenVersions, AddMkdir, RemoveScan, RemoveDir, disk, BaseInv,
       DiskInv
  <2>2. pc[self] # "writeIndex" /\ pc[self] # "writeVersions"
    BY DEF AddOpenIndex, YankOpenIndex, RemoveOpenIndex, AddOpenVersions,
       YankOpenVersions, RemoveOpenVersions, AddMkdir, RemoveScan, RemoveDir
  <2>3. \A p \in Projects : versions'[p].val = versions[p].val
    <3>1. CASE UNCHANGED versions
      BY <3>1
    <3>2. CASE versions' = [versions EXCEPT ![j.prj] = OpenedVersions(j.prj)]
      <4>1. OpenedVersions(j.prj).val = versions[j.prj].val
        BY <2>1 DEF OpenedVersions, CleanInv, PlainDisk, Blank
      <4> QED
        BY <2>1, <3>2, <4>1
    <3> QED
      BY <3>1, <3>2 DEF AddOpenIndex, YankOpenIndex, RemoveOpenIndex, AddOpenVersions,
         YankOpenVersions, RemoveOpenVersions, AddMkdir, RemoveScan, RemoveDir, disk
  <2>4. \/ \E r : Return(self, r)
        \/ \E locals :
              \E label \in {"openVersions", "mkdir", "truncVersions", "scan", "kpar",
                            "truncIndex"} : Continue(self, label, locals)
    BY DEF AddOpenIndex, YankOpenIndex, RemoveOpenIndex, AddOpenVersions,
       YankOpenVersions, RemoveOpenVersions, AddMkdir, RemoveScan, RemoveDir
  <2>5. pc'[self] # "writeIndex" /\ pc'[self] # "writeVersions"
    <3>1. CASE \E r : Return(self, r)
      BY <3>1 DEF Return, Goto, BaseInv, ControlInv
    <3>2. CASE \E locals :
              \E label \in {"openVersions", "mkdir", "truncVersions", "scan", "kpar",
                            "truncIndex"} : Continue(self, label, locals)
      BY <3>2, ContinueValues DEF BaseInv
    <3> QED
      BY <2>4, <3>1, <3>2
  <2>6. \A o \in Procs : o # self => pc[o] = "idle" /\ pc'[o] = "idle"
    BY <2>4, <1>OthersStayIdle
  <2>7. LogicalIndex' = LogicalIndex /\ LogicalEntries' = LogicalEntries
    BY <2>1, <2>2, <2>3, <2>5, <2>6, <1>QuietStep
  <2> QED
    BY <2>1, <2>7, <1>SameServed DEF Protocol!vars
<1>MappedWriteFile.
      ASSUME BaseInv, SerialInv, CleanInv, NEW self \in Procs,
             \A o \in Procs : o # self => pc[o] = "idle", AddWriteFile(self)
      PROVE  [Protocol!Next]_(Protocol!vars)
  <2> USE <1>MappedWriteFile
  <2> DEFINE j == job[self]
             s == versions[j.prj].val
  <2>0. PICK p0 \in Projects, v0 \in Versions, b0 \in Builds :
           p0 = j.prj /\ v0 = j.ver /\ b0 = j.build
    BY JobFields DEF BaseInv
  <2>1. /\ UNCHANGED <<index, versions>> /\ pc[self] \in FileNames
        /\ FromDisk(self) /\ Progress(self)
    BY JobFields DEF AddWriteFile, BaseInv, SerialInv, CleanInv
  <2>2. /\ pc[self] # "writeIndex" /\ pc[self] # "writeVersions" /\ pc[self] # "idle"
        /\ pc[self] # "openIndex" /\ "meta" \in FileNames
    BY <2>1 DEF FileNames
  <2>3. \A o \in Procs : o # self => pc[o] = "idle" /\ pc'[o] = "idle"
    BY <1>OthersStayIdle DEF AddWriteFile
  <2>4. LogicalIndex' = LogicalIndex /\ LogicalEntries' = LogicalEntries
    <3>1. pc'[self] # "writeIndex" /\ pc'[self] # "writeVersions"
      <4>1. CASE Return(self, "cleanupFailed")
        BY <4>1 DEF Return, Goto, BaseInv, ControlInv
      <4>2. CASE Continue(self, FileStep[pc[self]], j)
        <5>1. pc'[self] = FileStep[pc[self]]
          BY <4>2, ContinueValues DEF BaseInv
        <5> QED
          BY SMT, <2>1, <5>1 DEF FileStep, FileNames
      <4> QED
        BY <4>1, <4>2 DEF AddWriteFile
    <3> QED
      BY <2>1, <2>2, <2>3, <3>1, <1>QuietStep
  <2>4a. pc[self] \in FileNames
    BY <2>1
  <2>5. CASE UNCHANGED files
    BY <2>4, <2>5, <1>SameServed DEF Protocol!vars
  <2>6. CASE files' = [files EXCEPT ![<<p0, v0, pc[self]>>] = b0]
    <3>1. files[<<p0, v0, "meta">>] = "none"
      BY <2>0, <2>1 DEF FromDisk, InHand
    <3>2. ServedBuild(p0, v0) = "none"
      BY <2>2, <3>1, ServedNot
    <3>3. /\ files'[<<p0, v0, pc[self]>>] = b0
          /\ \A f \in FileNames : f # pc[self] =>
                files'[<<p0, v0, f>>] = files[<<p0, v0, f>>]
          /\ \A p \in Projects, v \in Versions : p # p0 \/ v # v0 =>
                ServedBuild(p, v)' = ServedBuild(p, v)
      BY <2>6, <2>4a, <1>OneFileChanged
    <3>4. CASE pc[self] # "meta"
      <4>1. files'[<<p0, v0, "meta">>] = "none"
        BY <2>2, <3>1, <3>3, <3>4
      <4>2. ServedBuild(p0, v0)' = "none"
        BY <2>2, <4>1, <1>ServedNextNot
      <4>3. ASSUME NEW p \in Projects, NEW v \in Versions
            PROVE  ServedBuild(p, v)' = ServedBuild(p, v)
        BY <3>2, <3>3, <4>2
      <4> QED
        BY <2>4, <4>3, <1>SameServedBuilds DEF Protocol!vars
    <3>5. CASE pc[self] = "meta"
      <4>1. \A f \in FileNames : files'[<<p0, v0, f>>] = b0
        <5>1. /\ files[<<p0, v0, "kpar">>] = b0
              /\ files[<<p0, v0, "info">>] = b0
          BY <2>0, <2>1, <3>5 DEF Progress, AddProgress
        <5> QED
          BY <3>3, <3>5, <5>1 DEF FileNames
      <4>2. ServedBuild(p0, v0)' = b0
        BY <4>1, <1>ServedNextIs
      <4>3. ServedBuilds' = [ServedBuilds EXCEPT ![p0][v0] = b0]
        BY SMTT(40), SMTT(40), <3>3, <4>2, <1>ChangedServed
      <4>4. j.op = "add" /\ LogicalIndex[p0] # "removed"
        <5>1. LogicalIndex = index.val
          BY <2>2, <1>LogicalNow
        <5>2. j.op = "add"
          BY <2>0, <2>1 DEF Progress, StepsOfCommand
        <5> QED
          BY <2>0, <2>1, <2>2, <5>1, <5>2 DEF Progress, IndexProgress
      <4>5. LogicalEntries[p0][v0] = [status |-> "unlisted", build |-> "none"]
        <5>1. ~Listed(s, v0)
          BY <2>0, <2>1, <4>4 DEF FromDisk, InHand
        <5>2. LogicalVersions(p0) = s
          BY <2>0, <2>1, <2>2, <1>LogicalNow
        <5> QED
          BY ZenonT(60), <2>0, <2>1, <5>1, <5>2 DEF LogicalEntries, EntryOf
      <4>6. ServedBuilds[p0][v0] = "none"
        BY <2>0, <2>1, <3>2 DEF ServedBuilds
      <4>7. Protocol!Upload(p0, v0, b0)
        BY <2>4, <4>3, <4>4, <4>5, <4>6 DEF Protocol!Upload, Protocol!Unlisted
      <4> QED
        BY <2>0, <2>1, <4>7 DEF Protocol!Next
    <3> QED
      BY <3>4, <3>5
  <2> QED
    BY <2>0, <2>5, <2>6 DEF AddWriteFile
<1>MappedRemoveFile.
      ASSUME BaseInv, SerialInv, CleanInv, NEW self \in Procs,
             \A o \in Procs : o # self => pc[o] = "idle", RemoveFile(self)
      PROVE  [Protocol!Next]_(Protocol!vars)
  <2> USE <1>MappedRemoveFile
  <2> DEFINE j == job[self]
             s == versions[j.prj].val
  <2>0. PICK p0 \in Projects, v0 \in Versions : p0 = j.prj /\ v0 = j.ver
    BY JobFields DEF BaseInv
  <2>1. /\ UNCHANGED <<index, versions, pc>> /\ pc[self] = "rmdir"
        /\ FromDisk(self) /\ Progress(self)
        /\ s \in VersionsJson /\ StrictlyDescending(s)
    BY JobFields DEF RemoveFile, BaseInv, DiskInv, SerialInv, CleanInv
  <2>2. PICK g \in FileNames : files' = [files EXCEPT ![<<p0, v0, g>>] = "none"]
    BY <2>0 DEF RemoveFile
  <2>3. LogicalIndex' = LogicalIndex /\ LogicalEntries' = LogicalEntries
    BY <2>0, <2>1, <1>QuietStep
  <2>4. /\ files'[<<p0, v0, g>>] = "none"
        /\ \A f \in FileNames : f # g => files'[<<p0, v0, f>>] = files[<<p0, v0, f>>]
        /\ \A p \in Projects, v \in Versions : p # p0 \/ v # v0 =>
              ServedBuild(p, v)' = ServedBuild(p, v)
    BY <2>2, <1>OneFileChanged
  <2>5. ServedBuild(p0, v0)' = "none"
    BY <2>4, <1>ServedNextNot
  <2>6. CASE ServedBuild(p0, v0) = "none"
    <3>1. ASSUME NEW p \in Projects, NEW v \in Versions
          PROVE  ServedBuild(p, v)' = ServedBuild(p, v)
      BY <2>4, <2>5, <2>6
    <3> QED
      BY <2>3, <3>1, <1>SameServedBuilds DEF Protocol!vars
  <2>7. CASE ServedBuild(p0, v0) # "none"
    <3>1. ServedBuilds' = [ServedBuilds EXCEPT ![p0][v0] = "none"]
      BY SMTT(40), SMTT(40), <2>4, <2>5, <1>ChangedServed
    <3>2. LogicalEntries[p0][v0].status = "removed"
      <4>1. LogicalVersions(p0) = s
        BY <2>0, <2>1, <1>LogicalNow
      <4>2. PICK i \in DOMAIN s : s[i].version = v0
        BY <2>0, <2>1 DEF FromDisk, InHand, Listed
      <4>3. s[i].status = "removed"
        BY <2>0, <2>1, <4>2 DEF Progress, RemoveProgress, Live
      <4>4. EntryOf(s, s[i].version) = [status |-> s[i].status, build |-> s[i].build]
        BY <2>0, <2>1, <1>EntryAt
      <4>5. LogicalEntries[p0][v0] = EntryOf(s, s[i].version)
        BY <2>0, <2>1, <4>1, <4>2 DEF LogicalEntries
      <4> QED
        BY SMT, <4>3, <4>4, <4>5
    <3>3. ServedBuilds[p0][v0] # "none"
      BY <2>0, <2>1, <2>7 DEF ServedBuilds
    <3>4. Protocol!Withdraw(p0, v0)
      BY <2>3, <3>1, <3>2, <3>3 DEF Protocol!Withdraw
    <3> QED
      BY <2>0, <2>1, <3>4 DEF Protocol!Next
  <2> QED
    BY <2>6, <2>7
<1>MappedTruncVersions.
      ASSUME BaseInv, SerialInv, PublishInv, CleanInv, NEW self \in Procs,
             \A o \in Procs : o # self => pc[o] = "idle", TruncVersions(self)
      PROVE  [Protocol!Next]_(Protocol!vars)
  <2> USE <1>MappedTruncVersions
  <2> DEFINE j == job[self]
  <2>0. PICK p0 \in Projects, v0 \in Versions, t \in VersionsJson, s \in VersionsJson :
           p0 = j.prj /\ v0 = j.ver /\ t = j.vers /\ s = versions[p0].val
    BY JobFields DEF BaseInv, DiskInv
  <2>1. /\ UNCHANGED <<index, dirs, files>> /\ pc[self] = "truncVersions"
        /\ FromDisk(self) /\ Progress(self) /\ Publishing(self)
        /\ Continue(self, "writeVersions", j) /\ pc'[self] = "writeVersions" /\ job'[self] = j
        /\ versions' = [versions EXCEPT ![p0] = Blank("empty", <<>>)]
    BY <2>0, ContinueValues DEF TruncVersions, BaseInv, SerialInv, PublishInv, CleanInv
  <2>2. StrictlyDescending(s) /\ StrictlyDescending(t)
    BY <2>0, JobFields DEF BaseInv, DiskInv
  <2>3. \A o \in Procs : o # self => pc[o] = "idle" /\ pc'[o] = "idle"
    BY <2>1, <1>OthersStayIdle
  <2>4. /\ LogicalIndex = index.val /\ LogicalIndex' = LogicalIndex
        /\ ServedBuilds' = ServedBuilds
    BY <2>1, <2>3, <1>LogicalNow, <1>LogicalNext, <1>SameServed
  <2>5. LogicalVersions(p0) = s /\ LogicalVersions(p0)' = t
    BY <2>0, <2>1, <2>3, <1>LogicalNow, <1>LogicalNext
  <2>6. ASSUME NEW p \in Projects, p # p0
        PROVE  LogicalVersions(p)' = LogicalVersions(p)
    <3>1. LogicalVersions(p) = versions[p].val
      BY <2>1, <1>LogicalNow
    <3>2. LogicalVersions(p)' = versions'[p].val
      BY ZenonT(60), <2>0, <2>1, <2>3, <2>6, <1>LogicalNext
    <3>3. versions'[p] = versions[p]
      BY <2>1, <2>6 DEF BaseInv, DiskInv
    <3> QED
      BY <3>1, <3>2, <3>3
  <2>7. LogicalEntries[p0][v0] = EntryOf(s, v0)
    BY <2>5 DEF LogicalEntries
  <2>8. CASE j.op = "add"
    <3>1. /\ ~Listed(s, v0)
          /\ \A i \in DOMAIN s : Holds(t, s[i])
          /\ \A k \in DOMAIN t : t[k] = NewEntry(j) \/ Holds(s, t[k])
      BY <2>0, <2>1, <2>8 DEF FromDisk, InHand
    <3>2. PICK i \in DOMAIN t : t[i] = NewEntry(j)
      BY <2>0, <2>1, <2>8 DEF Publishing
    <3>3. /\ t[i].version = v0 /\ t[i].status = "available" /\ t[i].build = j.build
          /\ j.build \in Builds
      BY SMT, <2>0, <3>2, JobFields DEF NewEntry, BaseInv
    <3>4. LogicalEntries[p0][v0] = [status |-> "unlisted", build |-> "none"]
      BY <2>7, <3>1 DEF EntryOf
    <3>5. ServedBuild(p0, v0) = j.build
      <4>1. Live(t[i]) /\ pc[self] \notin {"mkdir"} \cup FileNames
        BY <2>1, <3>3 DEF Live, FileNames
      <4>2. Present(p0, t[i])
        BY <2>0, <2>1, <4>1 DEF Progress, WritableList
      <4>3. \A f \in FileNames : files[<<p0, v0, f>>] = j.build
        BY <3>3, <4>2 DEF Present
      <4> QED
        BY SMTT(40), SMTT(40), <3>3, <4>3, <1>ServedIs
    <3>6. ServedBuilds[p0][v0] = j.build /\ j.build # "none"
      BY <3>3, <3>5, BuildsAssumption DEF ServedBuilds
    <3> DEFINE e == [status |-> "available", build |-> ServedBuilds[p0][v0]]
    <3>7. EntryOf(LogicalVersions(p0)', v0) = e
      <4>1. EntryOf(t, t[i].version) = [status |-> t[i].status, build |-> t[i].build]
        BY <2>2, <1>EntryAt
      <4> QED
        BY <2>5, <3>3, <3>6, <4>1
    <3>8. ASSUME NEW w \in Versions, w # v0
          PROVE  EntryOf(LogicalVersions(p0)', w) = EntryOf(LogicalVersions(p0), w)
      <4>1. NewEntry(j).version # w
        BY <3>2, <3>3, <3>8
      <4>2. EntryOf(t, w) = EntryOf(s, w)
        BY ZenonT(60), <2>2, <3>1, <4>1, <1>EntrySame
      <4> QED
        BY <2>5, <4>2
    <3> HIDE DEF e
    <3>9. LogicalEntries' = [LogicalEntries EXCEPT ![p0][v0] = e]
      BY SMTT(40), SMTT(40), <2>6, <3>7, <3>8, <1>ChangedEntry
    <3>10. LogicalIndex[p0] # "removed"
      BY <2>0, <2>1, <2>4, <2>8 DEF Progress, IndexProgress
    <3>11. Protocol!List(p0, v0)
      BY <2>4, <3>4, <3>6, <3>9, <3>10 DEF Protocol!List, Protocol!Unlisted, e
    <3> QED
      BY <3>11 DEF Protocol!Next
  <2>9. ASSUME NEW i \in DOMAIN s, s[i].version = v0, NEW st \in VersionStatus,
               t = SetStatus(s, i, st)
        PROVE  /\ LogicalEntries[p0][v0] = [status |-> s[i].status, build |-> s[i].build]
               /\ LogicalEntries' = [LogicalEntries EXCEPT ![p0][v0].status = st]
    <3> DEFINE e == [status |-> st, build |-> s[i].build]
    <3>1. LogicalEntries[p0][v0] = [status |-> s[i].status, build |-> s[i].build]
      <4>1. EntryOf(s, s[i].version) = [status |-> s[i].status, build |-> s[i].build]
        BY <2>2, <1>EntryAt
      <4> QED
        BY <2>7, <2>9, <4>1
    <3>2. /\ EntryOf(SetStatus(s, i, st), s[i].version) = e
          /\ \A w : w # s[i].version => EntryOf(SetStatus(s, i, st), w) = EntryOf(s, w)
      BY <2>2, <1>EntryRestatused
    <3>3. /\ EntryOf(LogicalVersions(p0)', v0) = e
          /\ \A w \in Versions : w # v0 =>
                EntryOf(LogicalVersions(p0)', w) = EntryOf(LogicalVersions(p0), w)
      BY <2>5, <2>9, <3>2
    <3>4. [LogicalEntries[p0][v0] EXCEPT !.status = st] = e
      BY SMTT(40), <3>1
    <3> HIDE DEF e
    <3>5. LogicalEntries' = [LogicalEntries EXCEPT ![p0][v0] = e]
      BY SMTT(40), SMTT(40), <2>6, <3>3, <1>ChangedEntry
    <3>6. [LogicalEntries EXCEPT ![p0][v0].status = st] = [LogicalEntries EXCEPT ![p0][v0] = e]
      BY <3>4
    <3> QED
      BY <3>1, <3>5, <3>6
  <2>10. CASE j.op # "add"
    <3>1. PICK i \in DOMAIN s :
             /\ s[i].version = v0
             /\ \/ s[i].status = "available" /\ t = SetStatus(s, i, "yanked")
                \/ s[i].status # "removed" /\ t = SetStatus(s, i, "removed")
      BY <2>0, <2>1, <2>10 DEF FromDisk, InHand
    <3>2. s[i].status \in VersionStatus
      BY ListFacts DEF VersionEntry
    <3>3. CASE s[i].status = "available" /\ t = SetStatus(s, i, "yanked")
      <4>1. "yanked" \in VersionStatus
        BY DEF VersionStatus
      <4>2. /\ LogicalEntries[p0][v0] = [status |-> s[i].status, build |-> s[i].build]
            /\ LogicalEntries' = [LogicalEntries EXCEPT ![p0][v0].status = "yanked"]
        BY <2>9, <3>1, <3>3, <4>1
      <4>3. LogicalEntries[p0][v0].status = "available"
        BY SMT, <3>3, <4>2
      <4>4. Protocol!Yank(p0, v0)
        BY <2>4, <4>2, <4>3 DEF Protocol!Yank
      <4> QED
        BY <4>4 DEF Protocol!Next
    <3>4. CASE s[i].status # "removed" /\ t = SetStatus(s, i, "removed")
      <4>1. "removed" \in VersionStatus
        BY DEF VersionStatus
      <4>2. /\ LogicalEntries[p0][v0] = [status |-> s[i].status, build |-> s[i].build]
            /\ LogicalEntries' = [LogicalEntries EXCEPT ![p0][v0].status = "removed"]
        BY <2>9, <3>1, <3>4, <4>1
      <4>3. LogicalEntries[p0][v0].status \in {"available", "yanked"}
        BY SMT, <3>2, <3>4, <4>2 DEF VersionStatus
      <4>4. Protocol!Retire(p0, v0)
        BY <2>4, <4>2, <4>3 DEF Protocol!Retire
      <4> QED
        BY <4>4 DEF Protocol!Next
    <3> QED
      BY <3>1, <3>3, <3>4
  <2> QED
    BY <2>8, <2>10
<1>MappedTruncIndex.
      ASSUME BaseInv, SerialInv, PublishInv, CleanInv, NEW self \in Procs,
             \A o \in Procs : o # self => pc[o] = "idle", TruncIndex(self)
      PROVE  [Protocol!Next]_(Protocol!vars)
  <2> USE <1>MappedTruncIndex
  <2> DEFINE j == job[self]
  <2>0. PICK p0 \in Projects, v0 \in Versions, s \in VersionsJson :
           p0 = j.prj /\ v0 = j.ver /\ s = versions[p0].val
    BY JobFields DEF BaseInv, DiskInv
  <2>1. /\ UNCHANGED <<versions, files>> /\ pc[self] = "truncIndex"
        /\ FromDisk(self) /\ Progress(self) /\ Publishing(self)
        /\ Continue(self, "writeIndex", j) /\ pc'[self] = "writeIndex" /\ job'[self] = j
    BY ContinueValues DEF TruncIndex, BaseInv, SerialInv, PublishInv, CleanInv
  <2>2. StrictlyDescending(s) /\ index.val \in IndexJson
    BY <2>0 DEF BaseInv, DiskInv
  <2>3. \A o \in Procs : o # self => pc[o] = "idle" /\ pc'[o] = "idle"
    BY <2>1, <1>OthersStayIdle
  <2>4. LogicalIndex = index.val /\ LogicalIndex' = j.idx /\ ServedBuilds' = ServedBuilds
    BY <2>1, <2>3, <1>LogicalNow, <1>LogicalNext, <1>SameServed
  <2>5. LogicalEntries' = LogicalEntries
    <3>1. ASSUME NEW p \in Projects PROVE LogicalVersions(p)' = LogicalVersions(p)
      <4>1. LogicalVersions(p) = versions[p].val
        BY <2>1, <1>LogicalNow
      <4>2. LogicalVersions(p)' = versions'[p].val
        BY <2>1, <2>3, <1>LogicalNext
      <4> QED
        BY <2>1, <4>1, <4>2
    <3> QED
      BY <3>1, <1>SameEntries
  <2>6. ASSUME NEW v \in Versions PROVE LogicalEntries[p0][v] = EntryOf(s, v)
    <3>1. LogicalVersions(p0) = s
      BY <2>0, <2>1, <1>LogicalNow
    <3> QED
      BY <3>1 DEF LogicalEntries
  <2>7. CASE j.op = "add"
    <3>1. j.idx = [index.val EXCEPT ![p0] = "available"] /\ index.val[p0] = "unlisted"
      BY <2>0, <2>1, <2>7 DEF FromDisk, InHand, Publishing
    <3>2. PICK i \in DOMAIN s : s[i] = NewEntry(j)
      BY ZenonT(60), <2>0, <2>1, <2>7 DEF Publishing
    <3>3. s[i].version = v0 /\ s[i].status = "available"
      BY SMT, <2>0, <3>2 DEF NewEntry
    <3>4. LogicalEntries[p0][v0] # [status |-> "unlisted", build |-> "none"]
      <4>1. EntryOf(s, s[i].version) = [status |-> s[i].status, build |-> s[i].build]
        BY <2>2, <1>EntryAt
      <4>2. EntryOf(s, v0).status = "available"
        BY SMTT(40), <3>3, <4>1
      <4>3. EntryOf(s, v0) # [status |-> "unlisted", build |-> "none"]
        BY SMT, <4>2
      <4> QED
        BY <2>6, <4>3
    <3>5. Protocol!ListProject(p0)
      BY <2>4, <2>5, <3>1, <3>4 DEF Protocol!ListProject, Protocol!Unlisted
    <3> QED
      BY ZenonT(60), <3>5 DEF Protocol!Next
  <2>8. CASE j.op = "removeProject"
    <3>1. /\ Removing(j)
          /\ j.idx = [index.val EXCEPT ![p0] = "removed"] /\ index.val[p0] # "unlisted"
      BY <2>0, <2>1, <2>8 DEF FromDisk, InHand, Removing
    <3>2. CASE index.val[p0] = "removed"
      <4>1. j.idx = index.val
        BY <2>2, <3>1, <3>2 DEF IndexJson
      <4> QED
        BY <2>4, <2>5, <4>1 DEF Protocol!vars
    <3>3. CASE index.val[p0] = "available"
      <4>1. NoLive(s)
        <5>1. j.idx[p0] = "removed"
          BY <2>2, <3>1 DEF IndexJson
        <5> QED
          BY <2>0, <2>1, <5>1 DEF Progress, IndexProgress
      <4>2. ASSUME NEW v \in Versions
            PROVE  LogicalEntries[p0][v].status \in {"unlisted", "removed"}
        <5>1. CASE Listed(s, v)
          <6>1. PICK i \in DOMAIN s : s[i].version = v
            BY <5>1 DEF Listed
          <6>2. EntryOf(s, s[i].version) = [status |-> s[i].status, build |-> s[i].build]
            BY <2>2, <1>EntryAt
          <6>3. s[i].status = "removed"
            BY <4>1 DEF NoLive, Live
          <6>4. EntryOf(s, v).status = "removed"
            BY SMTT(40), <6>1, <6>2, <6>3
          <6> QED
            BY <2>6, <6>4
        <5>2. CASE ~Listed(s, v)
          <6>1. EntryOf(s, v).status = "unlisted"
            BY <5>2 DEF EntryOf
          <6> QED
            BY <2>6, <6>1
        <5> QED
          BY <5>1, <5>2
      <4>3. Protocol!RetireProject(p0)
        BY <2>4, <2>5, <3>1, <3>3, <4>2 DEF Protocol!RetireProject
      <4> QED
        BY ZenonT(60), <4>3 DEF Protocol!Next
    <3> QED
      BY <2>2, <3>1, <3>2, <3>3 DEF IndexJson, ProjectStatus
  <2> QED
    BY <2>1, <2>7, <2>8 DEF Progress, StepsOfCommand
<1>MappedWriteVersions.
      ASSUME BaseInv, PublishInv, NEW self \in Procs,
             \A o \in Procs : o # self => pc[o] = "idle", WriteVersions(self)
      PROVE  UNCHANGED Protocol!vars
  <2> USE <1>MappedWriteVersions
  <2> DEFINE j == job[self]
  <2>1. /\ UNCHANGED <<index, files>> /\ pc[self] = "writeVersions" /\ j.prj \in Projects
        /\ versions' = [versions EXCEPT ![j.prj] = Json(j.vers)]
        /\ versions \in [Projects -> [kind: FileKind, val: VersionsJson]]
    BY WrittenVersions, JobFields DEF WriteVersions, BaseInv, DiskInv
  <2>2. \/ \E r : Return(self, r)
        \/ \E locals : \E label \in {"truncIndex", "rmdir"} : Continue(self, label, locals)
    BY DEF WriteVersions
  <2>3. pc'[self] # "writeIndex" /\ pc'[self] # "writeVersions"
    <3>1. CASE \E r : Return(self, r)
      BY <3>1 DEF Return, Goto, BaseInv, ControlInv
    <3>2. CASE \E locals : \E label \in {"truncIndex", "rmdir"} : Continue(self, label, locals)
      BY <3>2, ContinueValues DEF BaseInv
    <3> QED
      BY <2>2, <3>1, <3>2
  <2>4. \A o \in Procs : o # self => pc[o] = "idle" /\ pc'[o] = "idle"
    BY <2>2, <1>OthersStayIdle
  <2>5. LogicalIndex' = LogicalIndex /\ ServedBuilds' = ServedBuilds
    BY <2>1, <2>3, <2>4, <1>LogicalNow, <1>LogicalNext, <1>SameServed
  <2>6. ASSUME NEW p \in Projects PROVE LogicalVersions(p)' = LogicalVersions(p)
    <3>1. LogicalVersions(p)' = versions'[p].val
      BY <2>3, <2>4, <1>LogicalNext
    <3>2. CASE p = j.prj
      <4>1. LogicalVersions(p) = j.vers
        BY <2>1, <3>2, <1>LogicalNow
      <4>2. versions'[p].val = j.vers
        BY <2>1, <3>2 DEF Json
      <4> QED
        BY <3>1, <4>1, <4>2
    <3>3. CASE p # j.prj
      <4>1. LogicalVersions(p) = versions[p].val
        BY <3>3, <1>LogicalNow
      <4>2. versions'[p] = versions[p]
        BY <2>1, <3>3
      <4> QED
        BY <3>1, <4>1, <4>2
    <3> QED
      BY <3>2, <3>3
  <2> QED
    BY <2>5, <2>6, <1>SameEntries DEF Protocol!vars
<1>MappedWriteIndex.
      ASSUME BaseInv, PublishInv, NEW self \in Procs,
             \A o \in Procs : o # self => pc[o] = "idle", WriteIndex(self)
      PROVE  UNCHANGED Protocol!vars
  <2> USE <1>MappedWriteIndex
  <2> DEFINE j == job[self]
  <2>1. /\ UNCHANGED <<versions, files>> /\ pc[self] = "writeIndex"
        /\ index' = Json(j.idx) /\ Return(self, "ok")
    BY WrittenIndex DEF WriteIndex
  <2>2. pc'[self] = "idle" /\ index'.val = j.idx
    BY <2>1 DEF Return, Goto, BaseInv, ControlInv, Json
  <2>3. \A o \in Procs : o # self => pc[o] = "idle" /\ pc'[o] = "idle"
    BY <2>1, <1>OthersStayIdle
  <2>4. LogicalIndex = j.idx
    BY <2>1, <1>LogicalNow
  <2>5. LogicalIndex' = index'.val
    BY <2>2, <2>3, <1>LogicalNext
  <2>6. ASSUME NEW p \in Projects PROVE LogicalVersions(p)' = LogicalVersions(p)
    <3>1. LogicalVersions(p)' = versions'[p].val
      BY <2>2, <2>3, <1>LogicalNext
    <3>2. LogicalVersions(p) = versions[p].val
      BY <2>1, <1>LogicalNow
    <3> QED
      BY <2>1, <3>1, <3>2
  <2> QED
    BY <2>1, <2>2, <2>4, <2>5, <2>6, <1>SameEntries, <1>SameServed DEF Protocol!vars
<1>1. CASE UNCHANGED vars
  <2>1. UNCHANGED <<index, versions, files, pc, job>>
    BY <1>1 DEF vars
  <2>2. LogicalIndex' = LogicalIndex
    BY SMT, <2>1 DEF LogicalIndex, Writers
  <2>3. ASSUME NEW p \in Projects PROVE LogicalVersions(p)' = LogicalVersions(p)
    BY SMT, <2>1 DEF LogicalVersions, Writers
  <2> QED
    BY <2>1, <2>2, <2>3, <1>SameEntries, <1>SameServed DEF Protocol!vars
<1>2. CASE CleanNext
  <2>1. PICK self \in Procs : SerialStart(self) \/ Step(self)
    BY <1>2 DEF CleanNext
  <2>2. CASE SerialStart(self)
    BY <2>2, <1>MappedStarts
  <2>3. CASE Step(self)
    <3>1. \A o \in Procs : o # self => pc[o] = "idle"
      BY <2>3, StepIsOfRunning DEF SerialInv, Exclusive
    <3> QED
      BY ZenonT(60), <2>3, <3>1, <1>MappedQuietSteps, <1>MappedWriteFile, <1>MappedRemoveFile,
         <1>MappedTruncVersions, <1>MappedTruncIndex, <1>MappedWriteVersions, <1>MappedWriteIndex DEF Step
  <2> QED
    BY <2>1, <2>2, <2>3
<1> QED
  BY <1>1, <1>2

\* Commands that run one after the other, to their end, keep the promise of an
\* index to its clients: every step of `add', `yank' or `remove' on the files
\* is one of IndexProtocol's operations or changes nothing a client can tell.
THEOREM CommandsKeepThePromise == CleanSpec => ImplementsProtocol
<1>1. CleanNext => SerialNext
  BY DEF CleanNext, SerialNext
<1>2. CleanSpec => [](BaseInv /\ SerialInv /\ PublishInv /\ CleanInv)
  BY <1>1, BaseInit, SerialInit, PublishInit, CleanInit, SerialNextStep, PublishNextStep,
     CleanNextStep, PTL DEF CleanSpec
<1> QED
  BY <1>2, MappedInit, MappedNext, PTL DEF CleanSpec, ImplementsProtocol, Protocol!Spec
=============================================================================
