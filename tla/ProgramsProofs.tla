--------------------------- MODULE ProgramsProofs ---------------------------
(***************************************************************************)
(* For every set of compiled programs and every heap: the slot and the     *)
(* heap agree, the shell's handle is current, and what is entered is the   *)
(* program its handle was given for, patched exactly once - the first time *)
(* it runs, and every further time when it has no BSS.                     *)
(***************************************************************************)
EXTENDS Programs, TLAPS

ShellCmds == {"load", "exec", "builtin"}
ProcCmds == {"spawn", "procexec"}
Inside == {"exec", "running", "close"}     \* an image is loaded and named by job

CallJob == [cmd: AllCommands, handle: 0..(GenMod - 1), prog: Programs,
            runs: Programs \cup {None}, status: Statuses \cup {0}]

\* The heap, the slot and the memory.
SlotOK ==
  /\ slot \in [allocated: BOOLEAN, loaded: BOOLEAN, mark: Nat, capacity: Nat,
               size: Nat, gen: 0..(GenMod - 1)]
  /\ IF slot.allocated
     THEN slot.mark = 0 /\ slot.capacity = HeapCap /\ top = HeapCap
     ELSE top = 0 /\ ~slot.loaded
  /\ slot.loaded => slot.gen # 0
  /\ DOMAIN mem = 0..(HeapCap - 1)
  /\ image \in {"fresh", "used", "torn"}

\* The running command, and the handles it and the shell hold.
JobOK ==
  /\ pc \in {"shell", "open"} \cup Inside
  /\ pc = "open" => /\ job.cmd \in ShellCmds \cup ProcCmds
                    /\ job = [cmd |-> job.cmd, names |-> job.names]
  /\ pc \in Inside => job \in CallJob
  /\ pc = "exec" => IF job.cmd = "run" THEN job.handle = handle
                    ELSE ValidHandle(job.handle)
  /\ pc = "running" => ValidHandle(job.handle)
  /\ pc = "close" => job.cmd \in ProcCmds /\ ValidHandle(job.handle)
  /\ pc \in Inside /\ job.cmd \notin ProcCmds => meant = job.prog

HandleOK ==
  /\ handle \in 0..(GenMod - 1)
  /\ handle # 0 => meant \in Programs
  /\ (pc \in Inside => job.cmd \notin ProcCmds) /\ slot.loaded
       => ValidHandle(handle)

WaitOK ==
  /\ wait \in [pending: BOOLEAN, status: Statuses \cup {0}, last: Statuses \cup {0}]
  /\ pc # "shell" /\ job.cmd = "spawn" => ~wait.pending

Control == SlotOK /\ JobOK /\ HandleOK /\ WaitOK

\* What the memory holds of the program whose image is loaded.
Owner == IF pc \in Inside THEN job.prog ELSE meant
Sized(p) == slot.size = FileSize(p) /\ Need(p) <= HeapCap
Whole(p) ==
  /\ Sized(p)
  /\ \A a \in 0..(FileSize(p) - 1) : mem[a] = PackedCell(p, a)
Settled(p) ==
  /\ Sized(p)
  /\ \A a \in 0..(FileSize(p) - 1) :
       a \notin HeaderSize..(ImportOff(p) - 1) => mem[a] = PackedCell(p, a)
  /\ RightCode(p)

AtRest ==
  slot.loaded /\ pc \notin {"running", "close"} =>
    /\ image = "fresh" => Whole(Owner)
    /\ image = "used" /\ Owner.bss = 0 => Settled(Owner)
Entered ==
  pc = "running" /\ (image = "fresh" \/ (image = "used" /\ job.prog.bss = 0)) =>
    /\ job.runs = job.prog /\ Sized(job.prog)
    /\ RightCode(job.prog) /\ RightBss(job.prog)
    /\ image = "fresh" => RightData(job.prog)
    /\ job.prog.bss = 0 => Settled(job.prog)

LoaderInv == Control /\ AtRest /\ Entered
-----------------------------------------------------------------------------
LEMMA ProgramFacts ==
  ASSUME NEW p \in Programs
  PROVE  /\ p.code \in Nat \ {0} /\ p.data \in Nat /\ p.bss \in Nat /\ p.stack \in Nat
         /\ p.imports \in Seq(Nat) /\ Len(p.imports) \in Nat
         /\ DOMAIN p.imports = 1..Len(p.imports)
         /\ Len(p.relocs) \in Nat /\ DOMAIN p.relocs = 1..Len(p.relocs)
         /\ \A j \in DOMAIN p.relocs :
              p.relocs[j] \in [at: Nat, kind: {"base", "import"}, arg: Nat]
         /\ Exec(p) \in Nat /\ FileSize(p) \in Nat /\ Need(p) \in Nat
         /\ ImportOff(p) \in Nat /\ RelocOff(p) \in Nat /\ StrOff(p) \in Nat
         /\ Need(p) >= Exec(p) /\ Need(p) >= FileSize(p)
<1>1. p \in Compiled
  BY CompilerAssumption
<1>2. /\ p.code \in Nat /\ p.data \in Nat /\ p.bss \in Nat /\ p.stack \in Nat
      /\ p.imports \in Seq(Nat)
      /\ p.relocs \in Seq([at: Nat, kind: {"base", "import"}, arg: Nat])
  BY <1>1 DEF Compiled
<1>3. p.code # 0
  BY <1>2, CompilerAssumption
<1>4. /\ Len(p.imports) \in Nat /\ DOMAIN p.imports = 1..Len(p.imports)
      /\ Len(p.relocs) \in Nat /\ DOMAIN p.relocs = 1..Len(p.relocs)
  BY <1>2
<1>8. ASSUME NEW j \in DOMAIN p.relocs
      PROVE  p.relocs[j] \in [at: Nat, kind: {"base", "import"}, arg: Nat]
  <2> DEFINE S == [at: Nat, kind: {"base", "import"}, arg: Nat]
  <2>1. p.relocs \in Seq(S) /\ j \in 1..Len(p.relocs)
    BY <1>2, <1>4, <1>8
  <2> HIDE DEF S
  <2>2. p.relocs[j] \in S
    BY <2>1
  <2> QED
    BY <2>2 DEF S
<1>5. HeaderSize \in Nat
  BY ProgramsAssumption
<1>6. /\ Exec(p) \in Nat /\ FileSize(p) \in Nat
      /\ ImportOff(p) \in Nat /\ RelocOff(p) \in Nat /\ StrOff(p) \in Nat
  <2>1. Exec(p) \in Nat /\ ImportOff(p) \in Nat
    BY <1>2, <1>5, SMTT(40) DEF Exec, ImportOff
  <2>2. RelocOff(p) \in Nat
    BY <1>4, <2>1 DEF RelocOff
  <2>3. StrOff(p) \in Nat
    BY <1>4, <2>2 DEF StrOff
  <2> QED
    BY <1>4, <2>1, <2>2, <2>3 DEF FileSize
<1>7. Need(p) \in Nat /\ Need(p) >= Exec(p) /\ Need(p) >= FileSize(p)
  BY <1>6 DEF Need
<1> QED
  BY <1>2, <1>3, <1>4, <1>6, <1>7, <1>8

LEMMA InitOK == Init => LoaderInv
BY ProgramsAssumption
DEF Init, LoaderInv, Control, SlotOK, JobOK, HandleOK, WaitOK, AtRest, Entered,
    NoSlot, NoJob, Inside, ValidHandle

\* The slot that an open finds or makes is the whole heap.
LEMMA EnsureFacts ==
  ASSUME SlotOK, HaveSlot \/ CanMakeSlot
  PROVE  /\ EnsuredSlot \in [allocated: BOOLEAN, loaded: BOOLEAN, mark: Nat,
                             capacity: Nat, size: Nat, gen: 0..(GenMod - 1)]
         /\ EnsuredSlot.allocated /\ EnsuredSlot.mark = 0
         /\ EnsuredSlot.capacity = HeapCap /\ EnsuredTop = HeapCap
         /\ EnsuredSlot.gen = slot.gen
         /\ EnsuredSlot.loaded => slot.loaded
         /\ slot.loaded => EnsuredSlot = slot
<1>1. CASE HaveSlot
  BY <1>1 DEF SlotOK, HaveSlot, EnsuredSlot, EnsuredTop
<1>2. CASE ~HaveSlot
  <2>1. ~slot.allocated /\ top = 0 /\ ~slot.loaded
    BY <1>2, ProgramsAssumption DEF SlotOK, HaveSlot
  <2>2. HeapCap \in Nat /\ HeapCap % 2 = 0
    BY ProgramsAssumption
  <2>3. Remaining = HeapCap
    BY <2>1, <2>2 DEF Remaining
  <2>4. SlotSize = HeapCap
    BY <2>2, <2>3 DEF SlotSize
  <2>5. Align2(SlotSize) = HeapCap
    BY <2>2, <2>4 DEF Align2
  <2>6. slot.gen \in 0..(GenMod - 1)
    BY DEF SlotOK
  <2>7. EnsuredSlot = [allocated |-> TRUE, loaded |-> FALSE, mark |-> 0,
                       capacity |-> HeapCap, size |-> 0, gen |-> slot.gen]
    BY <1>2, <2>1, <2>4 DEF EnsuredSlot, NewSlot, NoSlot
  <2>8. EnsuredTop = HeapCap
    BY <1>2, <2>1, <2>2, <2>5 DEF EnsuredTop
  <2> QED
    BY <2>1, <2>2, <2>6, <2>7, <2>8
<1> QED
  BY <1>1, <1>2
-----------------------------------------------------------------------------
(* Control is kept.  One lemma per group of actions that end alike.        *)

LEMMA StartControl ==
  ASSUME Control, (\E c \in Commands : Open(c)) \/ Run \/ Spawn \/ ProcExec \/ Wait
  PROVE  Control'
<1>1. SlotOK'
  BY DEF Control, SlotOK, Open, Run, Spawn, ProcExec, Wait, memory
<1>2. JobOK' /\ WaitOK' /\ HandleOK'
  <2>1. CASE \E c \in Commands : Open(c)
    BY <2>1 DEF Control, JobOK, WaitOK, HandleOK, Open, Start, memory, shell,
                ValidHandle, Inside, ShellCmds
  <2>2. CASE Run
    <3>1. CASE handle = 0
      BY <2>2, <3>1 DEF Control, JobOK, WaitOK, HandleOK, Run, Start, memory,
                        shell, ValidHandle, Inside
    <3>2. CASE handle # 0
      <4>1. meant \in Programs /\ handle \in 0..(GenMod - 1) /\ "run" \in AllCommands
        BY <3>2 DEF Control, HandleOK, AllCommands
      <4>2. job' \in CallJob /\ job'.cmd = "run" /\ job'.handle = handle
            /\ job'.prog = meant
        BY <2>2, <3>2, <4>1 DEF Run, Called, CallJob
      <4>3. pc' = "exec" /\ handle' = handle /\ meant' = meant /\ slot' = slot
            /\ wait' = wait /\ pc = "shell"
        BY <2>2, <3>2 DEF Run, Start, shell, memory
      <4> QED
        BY <4>2, <4>3 DEF Control, JobOK, WaitOK, HandleOK, ValidHandle, Inside,
                          ProcCmds
    <3> QED
      BY <3>1, <3>2
  <2>3. CASE Spawn
    BY <2>3 DEF Control, JobOK, WaitOK, HandleOK, Spawn, Start, memory, shell,
                ValidHandle, Inside, ProcCmds
  <2>4. CASE ProcExec
    <3>1. wait' \in [pending: BOOLEAN, status: Statuses \cup {0},
                     last: Statuses \cup {0}]
      BY <2>4 DEF Control, WaitOK, ProcExec
    <3> QED
      BY <2>4, <3>1 DEF Control, JobOK, WaitOK, HandleOK, ProcExec, Start,
                        memory, shell, ValidHandle, Inside, ProcCmds
  <2>5. CASE Wait
    <3>1. wait' \in [pending: BOOLEAN, status: Statuses \cup {0},
                     last: Statuses \cup {0}]
      BY <2>5 DEF Control, WaitOK, Wait
    <3> QED
      BY <2>5, <3>1 DEF Control, JobOK, WaitOK, HandleOK, Wait, Start,
                        memory, shell, ValidHandle, Inside
  <2> QED
    BY <2>1, <2>2, <2>3, <2>4, <2>5
<1> QED
  BY <1>1, <1>2 DEF Control

\* An open that fails leaves the handles as they are.
LEMMA FailedOpenControl ==
  ASSUME Control, SlotOK', pc = "open",
         NEW r, OpenFails(r), UNCHANGED <<shell, wait>>,
         slot.loaded => slot' = slot, slot'.loaded => slot.loaded
  PROVE  Control'
<1>1. JobOK'
  <2>1. pc' \in {"shell", "open"}
    BY DEF OpenFails, EndCommand
  <2>2. pc' = "open" => job' = [cmd |-> job.cmd, names |-> Tail(job.names)]
    BY DEF Control, JobOK, OpenFails, EndCommand
  <2> QED
    BY <2>1, <2>2 DEF Control, JobOK, Inside
<1>2. HandleOK'
  BY DEF Control, HandleOK, OpenFails, EndCommand, shell, ValidHandle, Inside
<1>3. WaitOK'
  <2>1. pc' = "shell" \/ job' = [cmd |-> job.cmd, names |-> Tail(job.names)]
    BY DEF Control, JobOK, OpenFails, EndCommand
  <2> QED
    BY <2>1 DEF Control, WaitOK
<1> QED
  BY <1>1, <1>2, <1>3 DEF Control

LEMMA OpenControl ==
  ASSUME Control, Refused \/ HeaderUnread \/ NoRoom \/ \E p \in Programs : ImageUnread(p)
  PROVE  Control'
<1>1. CASE Refused \/ HeaderUnread
  <2>1. /\ pc = "open" /\ UNCHANGED <<memory, shell, wait>>
        /\ \E r : OpenFails(r)
    BY <1>1 DEF Refused, HeaderUnread
  <2>2. SlotOK' /\ slot' = slot
    BY <2>1 DEF memory, Control, SlotOK
  <2> QED
    BY <2>1, <2>2, FailedOpenControl
<1>2. CASE NoRoom
  <2>1. /\ pc = "open" /\ UNCHANGED <<mem, image, shell, wait>>
        /\ \E r : OpenFails(r)
    BY <1>2 DEF NoRoom
  <2>2. SlotOK' /\ (slot.loaded => slot' = slot) /\ (slot'.loaded => slot.loaded)
    <3>1. CASE HaveSlot \/ CanMakeSlot
      <4>1. slot' = EnsuredSlot /\ top' = EnsuredTop
        BY <1>2, <3>1 DEF NoRoom
      <4> QED
        BY <2>1, <3>1, <4>1, EnsureFacts DEF Control, SlotOK
    <3>2. CASE ~(HaveSlot \/ CanMakeSlot)
      <4>1. slot' = slot /\ top' = top
        BY <1>2, <3>2 DEF NoRoom
      <4> QED
        BY <2>1, <4>1 DEF Control, SlotOK
    <3> QED
      BY <3>1, <3>2
  <2> QED
    BY <2>1, <2>2, FailedOpenControl
<1>3. CASE \E p \in Programs : ImageUnread(p)
  <2> PICK p \in Programs : ImageUnread(p)
    BY <1>3
  <2>1. /\ pc = "open" /\ UNCHANGED <<shell, wait>> /\ OpenFails("IO")
        /\ slot' = EnsuredSlot /\ top' = EnsuredTop /\ image' = "torn"
        /\ (HaveSlot \/ CanMakeSlot) /\ DOMAIN mem' = DOMAIN mem
    BY DEF ImageUnread, Opening, Read
  <2>2. SlotOK' /\ (slot.loaded => slot' = slot) /\ (slot'.loaded => slot.loaded)
    BY <2>1, EnsureFacts DEF Control, SlotOK
  <2> QED
    BY <2>1, <2>2, FailedOpenControl
<1> QED
  BY <1>1, <1>2, <1>3

LEMMA NextGenFacts ==
  ASSUME NEW g \in 0..(GenMod - 1)
  PROVE  NextGen(g) \in 0..(GenMod - 1) /\ NextGen(g) # 0
BY ProgramsAssumption DEF NextGen

LEMMA OpenedControl ==
  ASSUME Control, NEW p \in Programs, Opened(p)
  PROVE  Control'
<1>1. /\ HaveSlot \/ CanMakeSlot
      /\ pc = "open" /\ UNCHANGED wait
      /\ job.cmd \in ShellCmds \cup ProcCmds
  BY DEF Opened, Opening, Control, JobOK
<1>2. slot' = [allocated |-> TRUE, loaded |-> TRUE, mark |-> 0, capacity |-> HeapCap,
               size |-> FileSize(p), gen |-> NextGen(slot.gen)]
  <2>1. slot' = [EnsuredSlot EXCEPT !.loaded = TRUE, !.size = FileSize(p),
                                    !.gen = NextGen(EnsuredSlot.gen)]
    BY DEF Opened
  <2>2. /\ EnsuredSlot \in [allocated: BOOLEAN, loaded: BOOLEAN, mark: Nat,
                            capacity: Nat, size: Nat, gen: 0..(GenMod - 1)]
        /\ EnsuredSlot.allocated /\ EnsuredSlot.mark = 0
        /\ EnsuredSlot.capacity = HeapCap /\ EnsuredSlot.gen = slot.gen
    BY <1>1, EnsureFacts DEF Control
  <2>3. DOMAIN slot' = {"allocated", "loaded", "mark", "capacity", "size", "gen"}
    BY <2>1, <2>2
  <2>4. /\ slot'.allocated = TRUE /\ slot'.loaded = TRUE /\ slot'.mark = 0
        /\ slot'.capacity = HeapCap /\ slot'.size = FileSize(p)
        /\ slot'.gen = NextGen(slot.gen)
    BY <2>1, <2>2
  <2>5. slot' = [allocated |-> slot'.allocated, loaded |-> slot'.loaded,
                 mark |-> slot'.mark, capacity |-> slot'.capacity,
                 size |-> slot'.size, gen |-> slot'.gen]
    BY <2>1, <2>2
  <2> QED
    BY <2>4, <2>5
<1>3. slot'.gen \in 0..(GenMod - 1) /\ slot'.gen # 0
  BY <1>2, NextGenFacts DEF Control, SlotOK
<1>4. SlotOK'
  <2>1. top' = HeapCap /\ image' = "fresh" /\ DOMAIN mem' = 0..(HeapCap - 1)
    BY <1>1, EnsureFacts DEF Opened, Opening, Read, Control, SlotOK
  <2>2. FileSize(p) \in Nat
    BY ProgramFacts
  <2>3. slot'.allocated /\ slot'.loaded /\ slot'.mark = 0 /\ slot'.capacity = HeapCap
    BY <1>2
  <2>4. slot' \in [allocated: BOOLEAN, loaded: BOOLEAN, mark: Nat, capacity: Nat,
                   size: Nat, gen: 0..(GenMod - 1)]
    BY <1>2, <1>3, <2>2, ProgramsAssumption
  <2> QED
    BY <1>3, <2>1, <2>3, <2>4 DEF SlotOK
<1>5. slot'.allocated /\ slot'.loaded
  BY <1>2
<1>6. CASE job.cmd = "load"
  <2>1. pc' = "shell" /\ handle' = slot'.gen /\ meant' = p
    BY <1>6 DEF Opened, EndCommand
  <2> QED
    BY <1>1, <1>3, <1>4, <1>5, <2>1 DEF Control, JobOK, HandleOK, WaitOK, Inside, ValidHandle
<1>7. CASE job.cmd # "load"
  <2>1. /\ pc' = "exec" /\ job' = Called(job.cmd, slot'.gen, p)
        /\ IF job.cmd \in ShellCmds THEN handle' = slot'.gen /\ meant' = p
           ELSE handle' = handle /\ meant' = meant
    BY <1>7 DEF Opened, ShellCmds, shell
  <2>2. job' \in CallJob /\ job'.cmd = job.cmd /\ job'.handle = slot'.gen /\ job'.prog = p
    BY <1>1, <1>3, <2>1 DEF Called, CallJob, AllCommands, ShellCmds, ProcCmds
  <2>3. JobOK'
    <3>1. job'.cmd # "run"
      BY <1>1, <2>2 DEF ShellCmds, ProcCmds
    <3>2. (ValidHandle(job.handle))'
      BY <1>3, <1>5, <2>2 DEF ValidHandle
    <3>3. job'.cmd \notin ProcCmds => meant' = job'.prog
      BY <1>1, <2>1, <2>2
    <3> QED
      BY <2>1, <2>2, <3>1, <3>2, <3>3 DEF JobOK, Inside
  <2>4. HandleOK'
    BY <1>1, <1>3, <1>5, <2>1, <2>2 DEF Control, HandleOK, Inside, ValidHandle, ShellCmds, ProcCmds
  <2> QED
    BY <1>1, <1>4, <2>1, <2>2, <2>3, <2>4 DEF Control, WaitOK
<1> QED
  BY <1>6, <1>7

\* A call that fails before anything has been entered.
LEMMA FailedExecControl ==
  ASSUME Control, SlotOK', pc = "exec", NEW r, ExecFails(r),
         r = "BAD_HANDLE" <=> ~ValidHandle(job.handle),
         UNCHANGED <<slot, wait>>
  PROVE  Control'
<1>1. CASE job.cmd \in ProcCmds
  <2>1. pc' = "close" /\ UNCHANGED <<job, handle, meant>>
    BY <1>1 DEF ExecFails, ProcCmds, shell
  <2>2. job.cmd # "run" /\ ValidHandle(job.handle)
    BY <1>1 DEF ProcCmds, Control, JobOK
  <2> QED
    BY <1>1, <2>1, <2>2 DEF Control, JobOK, HandleOK, WaitOK, Inside, ValidHandle
<1>2. CASE job.cmd \notin ProcCmds
  <2>1. pc' = "shell"
    BY <1>2 DEF ExecFails, ProcCmds, EndCommand
  <2>2. HandleOK'
    <3>1. CASE job.cmd = "run" /\ r = "BAD_HANDLE"
      <4>1. ~slot.loaded
        BY <1>2, <3>1 DEF Control, JobOK, HandleOK, Inside
      <4>2. handle' = 0
        BY <1>2, <3>1 DEF ExecFails, ProcCmds
      <4> QED
        BY <2>1, <4>1, <4>2, ProgramsAssumption DEF HandleOK
    <3>2. CASE ~(job.cmd = "run" /\ r = "BAD_HANDLE")
      <4>1. UNCHANGED <<handle, meant>>
        BY <1>2, <3>2 DEF ExecFails, ProcCmds, shell
      <4> QED
        BY <1>2, <2>1, <4>1 DEF Control, HandleOK, ValidHandle, Inside
    <3> QED
      BY <3>1, <3>2
  <2> QED
    BY <2>1, <2>2 DEF Control, JobOK, WaitOK, Inside
<1> QED
  BY <1>1, <1>2

LEMMA Domains ==
  ASSUME NEW p, NEW n, NEW t
  PROVE  /\ DOMAIN Applied(p, t, n) = DOMAIN mem
         /\ DOMAIN Cleared(p, Applied(p, t, n)) = DOMAIN mem
BY DEF Applied, Patched, Moved, Cleared

LEMMA ExecControl ==
  ASSUME Control, StaleHandle \/ BadHeader \/ BadImport \/ BadReloc
  PROVE  Control'
<1>1. pc = "exec" /\ UNCHANGED <<slot, wait>>
  BY DEF StaleHandle, BadHeader, BadImport, BadReloc, memory
<1>2. SlotOK'
  <2>1. CASE StaleHandle \/ BadHeader \/ BadImport
    BY <2>1 DEF StaleHandle, BadHeader, BadImport, memory, Control, SlotOK
  <2>2. CASE BadReloc
    <3>1. DOMAIN mem' = DOMAIN mem /\ UNCHANGED <<top, slot, image>>
      BY <2>2, Domains DEF BadReloc
    <3> QED
      BY <3>1 DEF Control, SlotOK
  <2> QED
    BY <2>1, <2>2
<1>3. \E r : ExecFails(r) /\ (r = "BAD_HANDLE" <=> ~ValidHandle(job.handle))
  BY DEF StaleHandle, BadHeader, BadImport, BadReloc
<1> QED
  BY <1>1, <1>2, <1>3, FailedExecControl

LEMMA EnterControl ==
  ASSUME Control, Enter
  PROVE  Control'
<1> PICK p \in Accepted : job' = [job EXCEPT !.runs = p]
  BY DEF Enter
<1>1. DOMAIN mem' = DOMAIN mem
  BY Domains DEF Enter
<1>2. pc = "exec" /\ pc' = "running" /\ ValidHandle(job.handle)
      /\ UNCHANGED <<top, slot, image, handle, meant, wait>>
  BY DEF Enter, shell
<1>3. p \in Programs /\ job \in CallJob
  BY <1>2 DEF Accepted, HeaderOf, Control, JobOK, Inside
<1>4. job' \in CallJob /\ job'.cmd = job.cmd /\ job'.handle = job.handle
      /\ job'.prog = job.prog
  BY <1>3 DEF CallJob
<1>5. SlotOK'
  BY <1>1, <1>2 DEF Control, SlotOK
<1> QED
  BY <1>2, <1>4, <1>5 DEF Control, JobOK, HandleOK, WaitOK, Inside, ValidHandle

LEMMA ReturnControl ==
  ASSUME Control, Return
  PROVE  Control'
<1>1. /\ pc = "running" /\ ValidHandle(job.handle) /\ job \in CallJob
      /\ UNCHANGED <<top, slot, handle, meant, wait>>
  BY DEF Return, Control, JobOK, Inside, shell
<1>2. SlotOK'
  <2>1. DOMAIN mem' = DOMAIN mem
    BY DEF Return, Used
  <2> QED
    BY <1>1, <2>1 DEF Return, Control, SlotOK
<1>3. CASE job.cmd \in ProcCmds
  <2>1. PICK s \in Statuses : job' = [job EXCEPT !.status = s]
    BY <1>3 DEF Return, ProcCmds
  <2>2. job' \in CallJob /\ job'.cmd = job.cmd /\ job'.handle = job.handle
        /\ job'.prog = job.prog
    BY <1>1, <2>1 DEF CallJob
  <2>3. pc' = "close"
    BY <1>3 DEF Return, ProcCmds
  <2> QED
    BY <1>1, <1>2, <1>3, <2>2, <2>3
    DEF Control, JobOK, HandleOK, WaitOK, Inside, ValidHandle
<1>4. CASE job.cmd \notin ProcCmds
  <2>1. pc' = "shell"
    BY <1>4 DEF Return, ProcCmds, EndCommand
  <2> QED
    BY <1>1, <1>2, <1>4, <2>1
    DEF Control, JobOK, HandleOK, WaitOK, Inside, ValidHandle
<1> QED
  BY <1>3, <1>4

LEMMA CloseControl ==
  ASSUME Control, Close
  PROVE  Control'
<1>1. /\ pc = "close" /\ ValidHandle(job.handle) /\ job \in CallJob
      /\ pc' = "shell" /\ UNCHANGED <<mem, image, handle, meant>>
  BY DEF Close, Control, JobOK, Inside, shell, EndCommand
<1>2. top' = 0 /\ slot' = NoSlot(slot.gen)
  BY <1>1, ProgramsAssumption
  DEF Close, ValidHandle, Control, SlotOK, Restored
<1>3. SlotOK'
  BY <1>1, <1>2, ProgramsAssumption DEF Control, SlotOK, NoSlot
<1>4. WaitOK'
  <2>1. wait' \in [pending: BOOLEAN, status: Statuses \cup {0}, last: Statuses \cup {0}]
    <3>1. job.status \in Statuses \cup {0}
      BY <1>1 DEF CallJob
    <3>2. wait \in [pending: BOOLEAN, status: Statuses \cup {0},
                    last: Statuses \cup {0}]
      BY DEF Control, WaitOK
    <3>3. CASE job.runs = None
      BY <3>2, <3>3 DEF Close
    <3>4. CASE job.runs # None /\ job.cmd = "spawn"
      <4>1. wait' = [pending |-> TRUE, status |-> job.status, last |-> job.status]
        BY <3>4 DEF Close
      <4> QED
        BY <3>1, <4>1
    <3>5. CASE job.runs # None /\ job.cmd # "spawn"
      <4>1. wait' = [wait EXCEPT !.last = job.status]
        BY <3>5 DEF Close
      <4> QED
        BY <3>1, <3>2, <4>1
    <3> QED
      BY <3>3, <3>4, <3>5
  <2> QED
    BY <1>1, <2>1 DEF WaitOK
<1>5. ~slot'.loaded
  BY <1>2 DEF NoSlot
<1> QED
  BY <1>1, <1>3, <1>4, <1>5 DEF Control, JobOK, HandleOK, Inside

LEMMA ControlKept ==
  ASSUME Control, [Next]_vars
  PROVE  Control'
<1>1. CASE DeleteFile \/ UNCHANGED vars
  BY <1>1 DEF DeleteFile, vars, memory, shell, Control, SlotOK, JobOK, HandleOK,
              WaitOK, ValidHandle
<1> QED
  BY <1>1, StartControl, OpenControl, OpenedControl, ExecControl, EnterControl,
     ReturnControl, CloseControl DEF Next
-----------------------------------------------------------------------------
(* What the loader does to an image that is the program's.                 *)

Tables(p) ==
  /\ slot.allocated /\ Sized(p)
  /\ \A a \in 0..(FileSize(p) - 1) :
       a \notin HeaderSize..(ImportOff(p) - 1) => mem[a] = PackedCell(p, a)

LEMMA LoadFacts ==
  ASSUME Control, slot.allocated, NEW p \in Programs, Need(p) <= HeapCap
  PROVE  /\ Base = 0 /\ slot.capacity = HeapCap
         /\ LoadOff(p) = LoadAt(p, HeapCap)
         /\ LoadOff(p) \in {0, HeaderSize}
         /\ p.bss = 0 => LoadOff(p) = HeaderSize
         /\ LoadOff(p) + Exec(p) <= HeapCap - p.stack
         /\ FileSize(p) <= HeapCap - p.stack
<1>1. Base = 0 /\ slot.capacity = HeapCap
  BY DEF Control, SlotOK, Base
<1>2. LoadOff(p) = LoadAt(p, HeapCap)
  BY <1>1 DEF LoadOff
<1>3. {LoadAt(p, HeapCap) + Exec(p), FileSize(p)} \subseteq 0..(HeapCap - p.stack)
  BY CompilerAssumption
<1>4. LoadOff(p) + Exec(p) <= HeapCap - p.stack /\ FileSize(p) <= HeapCap - p.stack
  BY <1>2, <1>3
<1> QED
  BY <1>1, <1>2, <1>4 DEF LoadAt

LEMMA RelocFacts ==
  ASSUME NEW p \in Programs, NEW i, NEW j \in RelocAt(p, i)
  PROVE  /\ RelocAt(p, i) = {j} /\ j \in 1..Len(p.relocs) /\ p.relocs[j].at = i
         /\ p.relocs[j].kind = "base"
              => p.relocs[j].arg \in Nat /\ p.relocs[j].arg < Exec(p)
         /\ p.relocs[j].kind # "base" => p.relocs[j].arg \in DOMAIN p.imports
<1>1. j \in DOMAIN p.relocs /\ p.relocs[j].at = i
  BY ProgramFacts DEF RelocAt
<1>2. p.relocs[j] \in [at: Nat, kind: {"base", "import"}, arg: Nat]
  BY <1>1, ProgramFacts
<1>3. \A k \in RelocAt(p, i) : k = j
  BY <1>1, ProgramFacts, CompilerAssumption DEF RelocAt
<1>4. /\ p.relocs[j].kind = "base" => p.relocs[j].arg < Exec(p)
      /\ p.relocs[j].kind # "base" => p.relocs[j].arg \in DOMAIN p.imports
  BY <1>1, CompilerAssumption
<1> QED
  BY <1>1, <1>2, <1>3, <1>4, ProgramFacts

\* Only the program whose header is there is accepted.
LEMMA OneAccepted ==
  ASSUME Control, NEW p \in Programs, Tables(p), NEW q \in Accepted
  PROVE  q = p
<1>1. HeaderSize \in Nat /\ HeaderSize > 0
  BY ProgramsAssumption
<1>2. FileSize(p) > 0 /\ 0 \in 0..(FileSize(p) - 1)
  <2>1. ImportOff(p) \in Nat /\ ImportOff(p) > 0
    BY <1>1, ProgramFacts DEF ImportOff
  <2>2. RelocOff(p) \in Nat /\ RelocOff(p) > 0
    BY <2>1, ProgramFacts DEF RelocOff
  <2>3. StrOff(p) \in Nat /\ StrOff(p) > 0
    BY <2>2, ProgramFacts DEF StrOff
  <2> QED
    BY <2>3, ProgramFacts DEF FileSize
<1>3. mem[0] = PackedCell(p, 0)
  BY <1>1, <1>2 DEF Tables
<1>4. q \in Programs /\ Base = 0
  BY DEF Accepted, HeaderOf, Control, SlotOK, Base, Tables
<1>5. mem[Base + 0] = PackedCell(q, 0)
  BY <1>1 DEF Accepted, HeaderOf, Intact, At
<1>6. p.id = q.id
  BY <1>3, <1>4, <1>5 DEF PackedCell, Cell
<1> QED
  BY <1>4, <1>6, CompilerAssumption

LEMMA Within ==
  ASSUME NEW o \in Nat, NEW n \in Nat, NEW k \in 1..n
  PROVE  o + k - 1 \in Nat /\ o <= o + k - 1 /\ o + k - 1 < o + n
OBVIOUS

LEMMA TablesRead ==
  ASSUME Control, NEW p \in Programs, Tables(p)
  PROVE  /\ p \in Accepted
         /\ \A t \in Readings(p) : \A k \in 1..Len(p.imports) : t[k] = p.imports[k]
         /\ \A j \in 1..Len(p.relocs) : RecordIntact(p, j)
<1>1. /\ Len(p.imports) \in Nat /\ Len(p.relocs) \in Nat
      /\ ImportOff(p) \in Nat /\ RelocOff(p) \in Nat /\ StrOff(p) \in Nat
      /\ RelocOff(p) = ImportOff(p) + Len(p.imports)
      /\ StrOff(p) = RelocOff(p) + Len(p.relocs)
      /\ FileSize(p) = StrOff(p) + Len(p.imports)
  BY ProgramFacts DEF RelocOff, StrOff, FileSize
<1>0. FileSize(p) \in Nat /\ RelocOff(p) <= StrOff(p) /\ StrOff(p) <= FileSize(p)
      /\ ImportOff(p) <= RelocOff(p)
  <2>1. \A m, n \in Nat : m + n \in Nat /\ m <= m + n
    OBVIOUS
  <2> QED
    BY <1>1, <2>1, Zenon
<1>2. HeaderSize \in Nat /\ HeaderSize <= ImportOff(p)
  BY ProgramFacts, ProgramsAssumption DEF ImportOff
<1>3. \A a \in 0..(FileSize(p) - 1) :
        a \notin HeaderSize..(ImportOff(p) - 1) => Intact(p, a)
  BY DEF Tables, Intact, At, Base, Control, SlotOK
<1>4. ASSUME NEW a \in Nat, a < HeaderSize \/ a >= ImportOff(p), a < FileSize(p)
      PROVE  Intact(p, a)
  <2>1. a \in 0..(FileSize(p) - 1) /\ a \notin HeaderSize..(ImportOff(p) - 1)
    BY <1>1, <1>2, <1>4
  <2> QED
    BY <1>3, <2>1
<1>5. p \in Accepted
  <2>1. \A a \in 0..(HeaderSize - 1) : Intact(p, a)
    BY <1>1, <1>2, <1>4, SMTT(30)
  <2>2. StrOff(p) + Len(p.imports) <= slot.size
    BY <1>1 DEF Tables, Sized
  <2> QED
    BY <2>1, <2>2 DEF Accepted, HeaderOf
<1>6. ASSUME NEW t \in Readings(p), NEW k \in 1..Len(p.imports)
      PROVE  t[k] = p.imports[k]
  <2>1. k \in Nat /\ 1 <= k /\ k <= Len(p.imports)
    BY <1>1
  <2>2. Intact(p, StrOff(p) + k - 1)
    <3>1. /\ StrOff(p) + k - 1 \in Nat /\ StrOff(p) + k - 1 < FileSize(p)
          /\ StrOff(p) + k - 1 >= ImportOff(p)
      BY <1>1, <2>1, SMTT(30)
    <3> QED
      BY <1>4, <3>1
  <2>3. Intact(p, ImportOff(p) + k - 1)
    <3>1. /\ ImportOff(p) + k - 1 \in Nat /\ ImportOff(p) + k - 1 < RelocOff(p)
          /\ ImportOff(p) + k - 1 >= ImportOff(p)
      BY <1>1, <2>1, SMTT(30)
    <3>2. ImportOff(p) + k - 1 < FileSize(p)
      BY <1>0, <1>1, <3>1
    <3> QED
      BY <1>4, <3>1, <3>2
  <2>4. t[k] \in ImportSays(p, k)
    BY ProgramFacts DEF Readings
  <2>5. t[k] \in StringSays(p, k)
    BY <2>3, <2>4 DEF ImportSays
  <2> QED
    BY <2>2, <2>5 DEF StringSays
<1>7. ASSUME NEW j \in 1..Len(p.relocs)
      PROVE  RecordIntact(p, j)
  <2>2. /\ RelocOff(p) + j - 1 \in Nat /\ RelocOff(p) + j - 1 < StrOff(p)
        /\ RelocOff(p) + j - 1 >= RelocOff(p)
    BY <1>1, Within
  <2>4. RelocOff(p) + j - 1 < FileSize(p) /\ RelocOff(p) + j - 1 >= ImportOff(p)
    BY <1>0, <1>1, <2>2, SMTT(30)
  <2>3. Intact(p, RelocOff(p) + j - 1)
    BY <1>4, <2>2, <2>4
  <2> QED
    BY <2>3 DEF RecordIntact
<1> QED
  BY <1>5, <1>6, <1>7
-----------------------------------------------------------------------------
(* What entering a program makes of the memory.                            *)

LEMMA CellExcept ==
  ASSUME NEW f, NEW o, NEW v, NEW w
  PROVE  /\ [Cell(f, o, v) EXCEPT !.val = w] = Cell(f, o, w)
         /\ Cell(f, o, v).val = v
BY DEF Cell

\* A patched cell that is as it was packed gets its final value; one that has
\* it keeps it, since an address in the heap is no offset into an image.
LEMMA PatchedCode ==
  ASSUME Control, slot.allocated, NEW p \in Programs, Need(p) <= HeapCap,
         NEW t, \A k \in 1..Len(p.imports) : t[k] = p.imports[k],
         NEW m, DOMAIN m = 0..(HeapCap - 1),
         NEW i \in 0..(p.code - 1),
         m[LoadOff(p) + i] \in {PackedCell(p, HeaderSize + i), Code(p, i)}
  PROVE  Patched(p, Len(p.relocs), t, m)[LoadOff(p) + i] = Code(p, i)
<1> DEFINE c == m[LoadOff(p) + i]
<1>1. /\ Base = 0 /\ LoadOff(p) \in Nat /\ i \in Nat /\ i < p.code
      /\ HeaderSize \in Nat /\ HeapBase \in Nat /\ HeapCap \in Nat
      /\ HeapBase >= HeapCap /\ LoadOff(p) + Exec(p) <= HeapCap /\ Exec(p) \in Nat
      /\ p.code \in Nat /\ p.code <= Exec(p) /\ Exec(p) <= HeapCap
  <2>1. /\ p.code \in Nat /\ p.data \in Nat /\ p.bss \in Nat /\ p.stack \in Nat
        /\ Exec(p) \in Nat /\ HeaderSize \in Nat /\ HeapBase \in Nat /\ HeapCap \in Nat
        /\ HeapBase >= HeapCap
    BY ProgramFacts, ProgramsAssumption
  <2>2. Base = 0 /\ LoadOff(p) \in {0, HeaderSize} /\ LoadOff(p) + Exec(p) <= HeapCap - p.stack
    BY LoadFacts
  <2>3. p.code <= Exec(p)
    BY <2>1 DEF Exec
  <2> QED
    BY <2>1, <2>2, <2>3, SMTT(30)
<1>2. LoadOff(p) + i \in DOMAIN m /\ (LoadOff(p) + i) - Base - LoadOff(p) = i
  BY <1>1
<1>3. {j \in RelocAt(p, i) : j <= Len(p.relocs)} = RelocAt(p, i)
  BY ProgramFacts DEF RelocAt
<1> DEFINE Cells(a) == {j \in RelocAt(p, a - Base - LoadOff(p)) : j <= Len(p.relocs)}
           js == Cells(LoadOff(p) + i)
<1>7. js = RelocAt(p, i)
  BY <1>2, <1>3, Zenon
<1>8. Patched(p, Len(p.relocs), t, m)[LoadOff(p) + i]
        = IF js = {} THEN c
          ELSE LET r == p.relocs[CHOOSE j \in js : TRUE]
               IN  IF r.kind = "base" THEN Rebased(p, c) ELSE [c EXCEPT !.val = t[r.arg]]
  <2> DEFINE Value(a) ==
        IF Cells(a) = {} THEN m[a]
        ELSE LET r == p.relocs[CHOOSE j \in Cells(a) : TRUE]
             IN  IF r.kind = "base" THEN Rebased(p, m[a]) ELSE [m[a] EXCEPT !.val = t[r.arg]]
  <2>1. Patched(p, Len(p.relocs), t, m) = [a \in DOMAIN m |-> Value(a)]
    BY Zenon DEF Patched
  <2> HIDE DEF Cells
  <2>3. Value(LoadOff(p) + i)
          = IF js = {} THEN c
            ELSE LET r == p.relocs[CHOOSE j \in js : TRUE]
                 IN  IF r.kind = "base" THEN Rebased(p, c) ELSE [c EXCEPT !.val = t[r.arg]]
    BY Zenon
  <2> HIDE DEF Value
  <2>4. Patched(p, Len(p.relocs), t, m)[LoadOff(p) + i] = Value(LoadOff(p) + i)
    BY <1>2, <2>1
  <2> QED
    BY <2>3, <2>4
<1> HIDE DEF js
<1>4. PackedCell(p, HeaderSize + i) = Cell(p.id, HeaderSize + i, Target(p, i))
  <2>1. HeaderSize + i \in HeaderSize..(HeaderSize + p.code - 1) /\ (HeaderSize + i) - HeaderSize = i
    BY <1>1
  <2> DEFINE o == HeaderSize + i
  <2>2. PackedCell(p, o) = Cell(p.id, o, IF o \in HeaderSize..(HeaderSize + p.code - 1)
                                         THEN Target(p, o - HeaderSize) ELSE 0)
    BY Zenon DEF PackedCell
  <2>6. o - HeaderSize = i
    BY <2>1
  <2> HIDE DEF o
  <2>3. Target(p, o - HeaderSize) = Target(p, i)
    BY <2>6
  <2>4. o \in HeaderSize..(HeaderSize + p.code - 1)
    BY <2>1 DEF o
  <2>5. PackedCell(p, o) = Cell(p.id, o, Target(p, i))
    BY <2>2, <2>3, <2>4, Zenon
  <2> QED
    BY <2>5 DEF o
<1>5. CASE RelocAt(p, i) = {}
  <2>1. Patched(p, Len(p.relocs), t, m)[LoadOff(p) + i] = c
    BY <1>5, <1>7, <1>8
  <2>2. Target(p, i) = 0 /\ Code(p, i) = Cell(p.id, HeaderSize + i, 0)
    BY <1>5 DEF Target, Code
  <2> QED
    BY <1>4, <2>1, <2>2
<1>6. CASE RelocAt(p, i) # {}
  <2> PICK j \in RelocAt(p, i) : TRUE
    BY <1>6
  <2> DEFINE r == p.relocs[j]
  <2>1. RelocAt(p, i) = {j} /\ (CHOOSE k \in RelocAt(p, i) : TRUE) = j
    BY RelocFacts
  <2>2. Patched(p, Len(p.relocs), t, m)[LoadOff(p) + i]
          = IF r.kind = "base" THEN Rebased(p, c) ELSE [c EXCEPT !.val = t[r.arg]]
    BY <1>6, <1>7, <1>8, <2>1
  <2>3. Code(p, i) = Cell(p.id, HeaderSize + i,
                          IF r.kind = "base" THEN r.arg + HeapBase + Base + LoadOff(p)
                          ELSE p.imports[r.arg])
    BY <2>1 DEF Code
  <2>4. PICK v : c = Cell(p.id, HeaderSize + i, v)
    BY <1>4, <2>3
  <2>5. CASE r.kind = "base"
    <3>1. Target(p, i) = r.arg
      BY <2>1, <2>5 DEF Target
    <3>2. r.arg \in Nat /\ r.arg < Exec(p)
      BY <2>5, RelocFacts
    <3>3. CASE c = PackedCell(p, HeaderSize + i)
      <4>1. c = Cell(p.id, HeaderSize + i, r.arg)
        BY <1>4, <3>1, <3>3
      <4>2. Rebased(p, c) = Cell(p.id, HeaderSize + i, r.arg + HeapBase + Base + LoadOff(p))
        BY <3>2, <4>1, CellExcept DEF Rebased
      <4> QED
        BY <2>2, <2>3, <2>5, <4>2
    <3>4. CASE c = Code(p, i)
      <4>1. c.val = r.arg + HeapBase + Base + LoadOff(p)
        BY <2>3, <2>5, <3>4, CellExcept
      <4>2. ~(c.val < Exec(p))
        BY <1>1, <3>2, <4>1, SMTT(30)
      <4> QED
        BY <2>2, <2>5, <3>4, <4>2 DEF Rebased
    <3> QED
      BY <3>3, <3>4
  <2>6. CASE r.kind # "base"
    <3>1. t[r.arg] = p.imports[r.arg]
      BY <2>6, RelocFacts, ProgramFacts
    <3>2. [c EXCEPT !.val = t[r.arg]] = Cell(p.id, HeaderSize + i, t[r.arg])
      BY <2>4, CellExcept
    <3> QED
      BY <2>2, <2>3, <2>6, <3>1, <3>2
  <2> QED
    BY <2>5, <2>6
<1> QED
  BY <1>5, <1>6

\* Cells outside the code are not patched.
LEMMA PatchedElsewhere ==
  ASSUME NEW p \in Programs, Base = 0, NEW t, NEW n, NEW m, NEW a \in DOMAIN m,
         a - LoadOff(p) \notin 0..(p.code - 1), a \in Nat, LoadOff(p) \in Nat
  PROVE  Patched(p, n, t, m)[a] = m[a]
<1>1. a - Base - LoadOff(p) = a - LoadOff(p)
  OBVIOUS
<1>2. RelocAt(p, a - LoadOff(p)) = {}
  <2> SUFFICES ASSUME NEW j \in 1..Len(p.relocs), p.relocs[j].at = a - LoadOff(p)
               PROVE  FALSE
    BY DEF RelocAt
  <2>1. j \in DOMAIN p.relocs /\ p.relocs[j].at \in Nat /\ p.code \in Nat
    BY ProgramFacts
  <2>2. p.relocs[j].at < p.code
    BY <2>1, CompilerAssumption
  <2> QED
    BY <2>1, <2>2
<1> QED
  BY <1>1, <1>2 DEF Patched

\* The memory in which the program is entered.
LEMMA EnteredCells ==
  ASSUME Control, slot.allocated, NEW p \in Programs,
         NEW t, \A k \in 1..Len(p.imports) : t[k] = p.imports[k],
         Whole(p) \/ (Settled(p) /\ p.bss = 0),
         NEW m, m = Cleared(p, Patched(p, Len(p.relocs), t, Moved(p, mem)))
  PROVE  /\ \A i \in 0..(p.code - 1) : m[LoadOff(p) + i] = Code(p, i)
         /\ \A a \in BssCells(p) : m[a] = Zero
         /\ Whole(p) => \A i \in p.code..(p.code + p.data - 1) :
                          m[LoadOff(p) + i] = PackedCell(p, HeaderSize + i)
         /\ p.bss = 0 => \A a \in 0..(FileSize(p) - 1) :
                           a \notin HeaderSize..(ImportOff(p) - 1) => m[a] = PackedCell(p, a)
<1> DEFINE L == LoadOff(p)
           m1 == Moved(p, mem)
           m2 == Patched(p, Len(p.relocs), t, m1)
<1>1. Sized(p) /\ Need(p) <= HeapCap
  BY DEF Whole, Settled, Sized
<1>2. /\ p.code \in Nat /\ p.data \in Nat /\ p.bss \in Nat /\ p.stack \in Nat
      /\ FileSize(p) \in Nat /\ ImportOff(p) \in Nat /\ Exec(p) \in Nat
      /\ HeaderSize \in Nat /\ HeapCap \in Nat
  BY ProgramFacts, ProgramsAssumption
<1>3. ImportOff(p) = HeaderSize + p.code + p.data /\ Exec(p) = p.code + p.data + p.bss
  BY DEF ImportOff, Exec
<1>4. ImportOff(p) <= FileSize(p)
  <2>1. \A x, y \in Nat : x + y \in Nat /\ x <= x + y
    OBVIOUS
  <2>2. /\ RelocOff(p) \in Nat /\ StrOff(p) \in Nat
        /\ ImportOff(p) <= RelocOff(p) /\ RelocOff(p) <= StrOff(p) /\ StrOff(p) <= FileSize(p)
    BY <1>2, <2>1, ProgramFacts, Zenon DEF RelocOff, StrOff, FileSize
  <2> QED
    BY <1>2, <2>2
<1>5. /\ Base = 0 /\ L \in Nat /\ L \in {0, HeaderSize} /\ (p.bss = 0 => L = HeaderSize)
      /\ L + Exec(p) <= HeapCap /\ FileSize(p) <= HeapCap
  <2>1. /\ Base = 0 /\ L \in {0, HeaderSize} /\ (p.bss = 0 => L = HeaderSize)
        /\ L + Exec(p) <= HeapCap - p.stack /\ FileSize(p) <= HeapCap - p.stack
    BY <1>1, LoadFacts
  <2> QED
    BY <1>2, <2>1, SMTT(30)
<1>6. DOMAIN mem = 0..(HeapCap - 1) /\ DOMAIN m1 = DOMAIN mem /\ DOMAIN m2 = DOMAIN mem
      /\ DOMAIN m = DOMAIN mem
  BY DEF Moved, Patched, Cleared, Control, SlotOK
<1>13. /\ \A i \in 0..(p.code + p.data - 1) :
            /\ i \in Nat /\ i < p.code + p.data /\ HeaderSize + i \in 0..(FileSize(p) - 1)
            /\ L + i \in Nat /\ L + i \in 0..(HeapCap - 1)
            /\ L + i \notin (0 + L + p.code + p.data)..(0 + L + Exec(p) - 1)
       /\ \A i \in 0..(p.code - 1) : i \in 0..(p.code + p.data - 1)
       /\ \A i \in p.code..(p.code + p.data - 1) :
            i \in 0..(p.code + p.data - 1) /\ (L + i) - L \notin 0..(p.code - 1)
       /\ \A a \in (0 + L + p.code + p.data)..(0 + L + Exec(p) - 1) : a \in 0..(HeapCap - 1)
  <2> HIDE DEF L
  <2>1. p.code + p.data <= Exec(p) /\ HeaderSize + p.code + p.data <= FileSize(p)
    BY <1>2, <1>3, <1>4
  <2>2. L \in Nat /\ L + Exec(p) <= HeapCap /\ FileSize(p) <= HeapCap
    BY <1>5
  <2>3. ASSUME NEW i \in 0..(p.code + p.data - 1)
        PROVE  /\ i \in Nat /\ i < p.code + p.data /\ HeaderSize + i \in 0..(FileSize(p) - 1)
               /\ L + i \in Nat /\ L + i \in 0..(HeapCap - 1)
               /\ L + i \notin (0 + L + p.code + p.data)..(0 + L + Exec(p) - 1)
    <3>1. i \in Nat /\ i < p.code + p.data
      BY <1>2
    <3>2. HeaderSize + i \in 0..(FileSize(p) - 1)
      BY <1>2, <2>1, <3>1, SMTT(30)
    <3>3. L + i \in Nat /\ L + i \in 0..(HeapCap - 1)
      BY <1>2, <2>1, <2>2, <3>1, SMTT(30)
    <3>4. L + i < 0 + L + p.code + p.data
      BY <1>2, <2>2, <3>1, SMTT(30)
    <3>5. L + i \notin (0 + L + p.code + p.data)..(0 + L + Exec(p) - 1)
      <4>1. L + i \in Int /\ 0 + L + p.code + p.data \in Int /\ 0 + L + Exec(p) - 1 \in Int
        BY <1>2, <2>2, <3>3, SMTT(30)
      <4>2. \A x, lo, hi \in Int : x < lo => x \notin lo..hi
        OBVIOUS
      <4> QED
        BY <3>4, <4>1, <4>2, Zenon
    <3> QED
      BY <3>1, <3>2, <3>3, <3>5, Zenon
  <2>4. ASSUME NEW i \in 0..(p.code - 1)
        PROVE  i \in 0..(p.code + p.data - 1)
    BY <1>2, SMTT(30)
  <2>5. ASSUME NEW i \in p.code..(p.code + p.data - 1)
        PROVE  i \in 0..(p.code + p.data - 1) /\ (L + i) - L \notin 0..(p.code - 1)
    BY <1>2, <2>2
  <2>6. ASSUME NEW a \in (0 + L + p.code + p.data)..(0 + L + Exec(p) - 1)
        PROVE  a \in 0..(HeapCap - 1)
    BY <1>2, <2>2, SMTT(30)
  <2> QED
    BY <2>3, <2>4, <2>5, <2>6
<1>14. BssCells(p) = (0 + L + p.code + p.data)..(0 + L + Exec(p) - 1)
  BY <1>5 DEF BssCells
<1>7. ASSUME NEW i \in 0..(p.code + p.data - 1)
      PROVE  m1[L + i] = mem[HeaderSize + i]
  <2>1. i \in Nat /\ i < p.code + p.data /\ L + i \in DOMAIN mem /\ i - Base \in 0..(p.code + p.data - 1)
    BY <1>5, <1>6, <1>13
  <2>2. CASE L = HeaderSize
    BY <2>2 DEF Moved
  <2>3. CASE L # HeaderSize
    <3>1. L + i = i /\ i + HeaderSize = HeaderSize + i
      BY <1>2, <1>5, <2>1, <2>3
    <3>2. m1[i] = mem[i + HeaderSize]
      BY <2>1, <2>3, <3>1 DEF Moved
    <3> QED
      BY <3>1, <3>2
  <2> QED
    BY <2>2, <2>3
<1>8. ASSUME NEW i \in 0..(p.code + p.data - 1)
      PROVE  m[L + i] = m2[L + i]
  <2>1. L + i \in DOMAIN mem /\ L + i \notin BssCells(p)
    BY <1>6, <1>13, <1>14
  <2> QED
    BY <1>6, <2>1 DEF Cleared
<1>9. ASSUME NEW i \in 0..(p.code - 1)
      PROVE  m[L + i] = Code(p, i)
  <2>1. i \in 0..(p.code + p.data - 1) /\ HeaderSize + i \in 0..(FileSize(p) - 1)
    BY <1>13
  <2>2. mem[HeaderSize + i] \in {PackedCell(p, HeaderSize + i), Code(p, i)}
    <3>1. CASE Whole(p)
      BY <2>1, <3>1 DEF Whole
    <3>2. CASE Settled(p) /\ p.bss = 0
      <4>1. L = HeaderSize
        BY <1>5, <3>2
      <4>2. mem[Base + (L + i)] = Code(p, i)
        BY <3>2 DEF Settled, RightCode, At
      <4>3. Base + (L + i) = HeaderSize + i
        BY <1>2, <1>5, <4>1
      <4> QED
        BY <4>2, <4>3
    <3> QED
      BY <3>1, <3>2
  <2>3. m1[L + i] \in {PackedCell(p, HeaderSize + i), Code(p, i)}
    BY <1>7, <2>1, <2>2
  <2>4. m2[L + i] = Code(p, i)
    <3> HIDE DEF m1
    <3> QED
      BY <1>1, <1>6, <2>3, PatchedCode
  <2> QED
    BY <1>8, <2>1, <2>4
<1>10. ASSUME NEW a \in BssCells(p)
       PROVE  m[a] = Zero
  <2>1. a \in DOMAIN mem
    BY <1>6, <1>13, <1>14
  <2> QED
    BY <1>6, <2>1 DEF Cleared
<1>11. ASSUME Whole(p), NEW i \in p.code..(p.code + p.data - 1)
       PROVE  m[L + i] = PackedCell(p, HeaderSize + i)
  <2>1. /\ i \in 0..(p.code + p.data - 1) /\ HeaderSize + i \in 0..(FileSize(p) - 1)
        /\ L + i \in DOMAIN m1 /\ L + i \in Nat
        /\ (L + i) - L \notin 0..(p.code - 1)
    BY <1>6, <1>13
  <2>2. m1[L + i] = PackedCell(p, HeaderSize + i)
    BY <1>7, <1>11, <2>1 DEF Whole
  <2>3. m2[L + i] = m1[L + i]
    <3> HIDE DEF m1
    <3> QED
      BY <1>5, <2>1, PatchedElsewhere
  <2> QED
    BY <1>8, <2>1, <2>2, <2>3
<1>12. ASSUME p.bss = 0, NEW a \in 0..(FileSize(p) - 1), a \notin HeaderSize..(ImportOff(p) - 1)
       PROVE  m[a] = PackedCell(p, a)
  <2>1. L = HeaderSize
    BY <1>5, <1>12
  <2>2. /\ a \in DOMAIN mem /\ a \in Nat /\ a - L \notin 0..(p.code - 1)
        /\ a \notin BssCells(p)
    <3>1. a \in Nat /\ a < FileSize(p) /\ (a < HeaderSize \/ a >= HeaderSize + p.code + p.data)
      BY <1>2, <1>3, <1>12
    <3>2. a \in 0..(HeapCap - 1) /\ a - HeaderSize \notin 0..(p.code - 1)
      BY <1>2, <1>5, <3>1, SMTT(30)
    <3>3. Exec(p) = p.code + p.data
      BY <1>2, <1>3, <1>12
    <3>4. (0 + HeaderSize + p.code + p.data)..(0 + HeaderSize + (p.code + p.data) - 1) = {}
      BY <1>2, SMTT(40)
    <3> QED
      BY <1>6, <1>14, <2>1, <3>1, <3>2, <3>3, <3>4
  <2>3. mem[a] = PackedCell(p, a)
    BY <1>12 DEF Whole, Settled
  <2>4. m1 = mem
    BY <2>1 DEF Moved
  <2>5. m2[a] = mem[a]
    <3>1. Patched(p, Len(p.relocs), t, mem)[a] = mem[a]
      BY <1>5, <2>2, PatchedElsewhere
    <3> QED
      BY <2>4, <3>1
  <2>6. m[a] = m2[a]
    BY <1>6, <2>2 DEF Cleared
  <2> QED
    BY <2>3, <2>5, <2>6
<1> QED
  BY <1>9, <1>10, <1>11, <1>12
-----------------------------------------------------------------------------
(* The memory is kept.  First the steps that leave the image alone.        *)

LEMMA ImageLeft ==
  ASSUME AtRest, pc \notin {"running", "close"}, UNCHANGED <<mem, image>>,
         Owner' = Owner, slot'.loaded => slot.loaded /\ slot' = slot
  PROVE  AtRest'
<1> SUFFICES ASSUME slot'.loaded, pc' \notin {"running", "close"}
             PROVE  /\ image' = "fresh" => Whole(Owner)'
                    /\ image' = "used" /\ Owner'.bss = 0 => Settled(Owner)'
  BY DEF AtRest
<1>1. slot' = slot /\ slot.loaded
  OBVIOUS
<1>2. ASSUME NEW p, p = Owner
      PROVE  (Whole(p) => Whole(Owner)') /\ (Settled(p) => Settled(Owner)')
  <2>1. Owner' = p
    BY <1>2
  <2> QED
    BY <1>1, <2>1 DEF Whole, Settled, Sized, RightCode, At, Code, Base, LoadOff
<1> QED
  BY <1>1, <1>2 DEF AtRest

LEMMA StartMemory ==
  ASSUME Control, AtRest,
         \/ \E c \in Commands : Open(c)
         \/ Run \/ Spawn \/ ProcExec \/ Wait \/ DeleteFile \/ UNCHANGED vars,
         pc \notin {"running", "close"}
  PROVE  AtRest'
<1>1. UNCHANGED <<mem, image, slot, meant>>
  BY DEF Open, Run, Spawn, ProcExec, Wait, DeleteFile, vars, memory, shell
<1>2. Owner' = Owner
  <2>1. CASE Run
    BY <1>1, <2>1 DEF Run, Start, Owner, Inside, Called
  <2>2. CASE UNCHANGED vars
    BY <2>2 DEF vars, Owner
  <2>3. CASE (\E c \in Commands : Open(c)) \/ Spawn \/ ProcExec \/ Wait \/ DeleteFile
    <3>1. pc = "shell" /\ pc' \in {"shell", "open"}
      BY <2>3 DEF Open, Spawn, ProcExec, Wait, DeleteFile, Start
    <3> QED
      BY <1>1, <3>1 DEF Owner, Inside
  <2> QED
    BY <2>1, <2>2, <2>3
<1> QED
  BY <1>1, <1>2, ImageLeft

LEMMA OpenMemory ==
  ASSUME Control, AtRest, Refused \/ HeaderUnread \/ NoRoom \/ \E p \in Programs : ImageUnread(p)
  PROVE  AtRest'
<1>1. CASE \E p \in Programs : ImageUnread(p)
  <2>1. image' = "torn"
    BY <1>1 DEF ImageUnread
  <2> QED
    BY <2>1 DEF AtRest
<1>2. CASE Refused \/ HeaderUnread \/ NoRoom
  <2>1. /\ pc = "open" /\ UNCHANGED <<mem, image, meant>>
        /\ \E r : OpenFails(r)
    BY <1>2 DEF Refused, HeaderUnread, NoRoom, memory, shell
  <2>2. pc' \in {"shell", "open"}
    BY <2>1 DEF OpenFails, EndCommand
  <2>3. Owner' = Owner
    BY <2>1, <2>2 DEF Owner, Inside
  <2>4. slot'.loaded => slot.loaded /\ slot' = slot
    <3>1. CASE slot' = slot
      BY <3>1
    <3>2. CASE slot' # slot
      <4>1. slot' = EnsuredSlot /\ (HaveSlot \/ CanMakeSlot)
        BY <1>2, <3>2 DEF Refused, HeaderUnread, NoRoom, memory
      <4> QED
        BY <4>1, EnsureFacts DEF Control
    <3> QED
      BY <3>1, <3>2
  <2> QED
    BY <2>1, <2>3, <2>4, ImageLeft
<1> QED
  BY <1>1, <1>2

\* A whole read leaves the file in the slot.
LEMMA OpenedMemory ==
  ASSUME Control, NEW p \in Programs, Opened(p)
  PROVE  AtRest'
<1>1. HaveSlot \/ CanMakeSlot
  BY DEF Opened, Opening
<1>2. /\ EnsuredSlot \in [allocated: BOOLEAN, loaded: BOOLEAN, mark: Nat,
                          capacity: Nat, size: Nat, gen: 0..(GenMod - 1)]
      /\ EnsuredSlot.mark = 0 /\ EnsuredSlot.capacity = HeapCap
  BY <1>1, EnsureFacts DEF Control
<1>3. slot'.mark = 0 /\ slot'.size = FileSize(p)
  BY <1>2 DEF Opened
<1>4. Need(p) <= HeapCap /\ mem' = Read(p, FileSize(p)) /\ image' = "fresh"
  BY <1>2 DEF Opened, Opening
<1>5. FileSize(p) \in Nat /\ FileSize(p) <= HeapCap /\ HeapCap \in Nat
  <2>1. Need(p) \in Nat /\ FileSize(p) \in Nat /\ Need(p) >= FileSize(p)
    BY ProgramFacts
  <2>2. HeapCap \in Nat
    BY ProgramsAssumption
  <2> QED
    BY <1>4, <2>1, <2>2
<1>6. ASSUME NEW a \in 0..(FileSize(p) - 1)
      PROVE  mem'[a] = PackedCell(p, a)
  <2>1. a \in DOMAIN mem /\ a \in 0..(0 + FileSize(p) - 1) /\ a - 0 = a
    BY <1>5 DEF Control, SlotOK
  <2> QED
    BY <1>3, <1>4, <2>1 DEF Read
<1>7. Owner' = p
  BY DEF Opened, Opening, Control, JobOK, ShellCmds, ProcCmds, EndCommand, Called, Owner, Inside
<1>8. Whole(Owner)'
  BY <1>3, <1>4, <1>6, <1>7 DEF Whole, Sized
<1> QED
  BY <1>4, <1>8 DEF AtRest

\* While the image is as it was read, or has run without BSS, the loader
\* finds in it what the compiler put there.
Usable == image = "fresh" \/ (image = "used" /\ job.prog.bss = 0)

LEMMA LoaderReads ==
  ASSUME Control, AtRest, pc = "exec", ValidHandle(job.handle), Usable
  PROVE  /\ job.prog \in Programs /\ Tables(job.prog)
         /\ Whole(job.prog) \/ (Settled(job.prog) /\ job.prog.bss = 0)
         /\ Accepted = {job.prog}
         /\ \A t \in Readings(job.prog) : \A k \in 1..Len(job.prog.imports) :
              t[k] = job.prog.imports[k]
         /\ \A j \in 1..Len(job.prog.relocs) : RecordIntact(job.prog, j)
<1>1. Owner = job.prog /\ slot.loaded /\ slot.allocated
  BY DEF Owner, Inside, ValidHandle
<1>2. job.prog \in Programs
  BY DEF Control, JobOK, Inside, CallJob
<1>3. Whole(job.prog) \/ (Settled(job.prog) /\ job.prog.bss = 0)
  BY <1>1 DEF AtRest, Usable
<1>4. Tables(job.prog)
  BY <1>1, <1>3 DEF Tables, Whole, Settled
<1>5. \A q \in Accepted : q = job.prog
  BY <1>2, <1>4, OneAccepted
<1>6. /\ job.prog \in Accepted
      /\ \A t \in Readings(job.prog) : \A k \in 1..Len(job.prog.imports) :
           t[k] = job.prog.imports[k]
      /\ \A j \in 1..Len(job.prog.relocs) : RecordIntact(job.prog, j)
  BY <1>2, <1>4, TablesRead
<1> QED
  BY <1>2, <1>3, <1>4, <1>5, <1>6

\* It is then neither refused nor patched half-way.
LEMMA NeverRefused ==
  ASSUME Control, AtRest, pc = "exec", ValidHandle(job.handle), Usable
  PROVE  ~BadHeader /\ ~BadImport /\ ~BadReloc
<1>1. /\ job.prog \in Programs /\ Accepted = {job.prog}
      /\ \A t \in Readings(job.prog) : \A k \in 1..Len(job.prog.imports) :
           t[k] = job.prog.imports[k]
      /\ \A j \in 1..Len(job.prog.relocs) : RecordIntact(job.prog, j)
  BY LoaderReads
<1>2. ~BadHeader
  BY <1>1 DEF BadHeader
<1>3. ~BadImport
  <2> SUFFICES ASSUME NEW t \in Readings(job.prog), NEW k \in DOMAIN t, t[k] = 0
               PROVE  FALSE
    BY <1>1 DEF BadImport
  <2>1. k \in 1..Len(job.prog.imports)
    BY DEF Readings
  <2>2. job.prog.imports[k] \in 1..Apis
    BY <1>1, <2>1, ProgramFacts, CompilerAssumption, SMTT(30)
  <2> QED
    BY <1>1, <2>1, <2>2
<1>4. ~BadReloc
  BY <1>1, ProgramFacts, SMTT(30) DEF BadReloc
<1> QED
  BY <1>2, <1>3, <1>4

LEMMA ExecMemory ==
  ASSUME Control, AtRest, StaleHandle \/ BadHeader \/ BadImport \/ BadReloc
  PROVE  AtRest'
<1>1. pc = "exec" /\ UNCHANGED <<slot, image>>
  BY DEF StaleHandle, BadHeader, BadImport, BadReloc, memory
<1>2. CASE StaleHandle
  <2>1. ~slot.loaded
    BY <1>1, <1>2 DEF StaleHandle, Control, JobOK, HandleOK, Inside, ProcCmds
  <2> QED
    BY <1>1, <2>1 DEF AtRest
<1>3. CASE BadHeader \/ BadImport \/ BadReloc
  <2>1. ValidHandle(job.handle) /\ \E r : r # "BAD_HANDLE" /\ ExecFails(r)
    BY <1>3 DEF BadHeader, BadImport, BadReloc
  <2>2. ~Usable
    BY <1>1, <1>3, <2>1, NeverRefused
  <2>3. CASE pc' = "shell"
    <3>1. job.cmd \notin ProcCmds /\ meant' = meant
      BY <2>1, <2>3 DEF ExecFails, ProcCmds, shell
    <3>2. Owner' = job.prog
      BY <1>1, <2>3, <3>1 DEF Owner, Inside, Control, JobOK
    <3> QED
      BY <1>1, <2>2, <3>2 DEF AtRest, Usable
  <2>4. CASE pc' # "shell"
    <3>1. pc' = "close"
      BY <2>1, <2>4 DEF ExecFails, EndCommand
    <3> QED
      BY <3>1 DEF AtRest
  <2> QED
    BY <2>3, <2>4
<1> QED
  BY <1>2, <1>3

LEMMA EnterMemory ==
  ASSUME Control, AtRest, Enter
  PROVE  Entered'
<1>0. pc = "exec" /\ ValidHandle(job.handle) /\ pc' = "running" /\ UNCHANGED <<slot, image>>
  BY DEF Enter
<1> PICK p \in Accepted : \E t \in Readings(p) :
         /\ mem' = Cleared(p, Applied(p, t, Len(p.relocs)))
         /\ job' = [job EXCEPT !.runs = p]
  BY DEF Enter
<1> PICK t \in Readings(p) :
         /\ mem' = Cleared(p, Applied(p, t, Len(p.relocs)))
         /\ job' = [job EXCEPT !.runs = p]
  OBVIOUS
<1>1. job \in CallJob
  BY <1>0 DEF Control, JobOK, Inside
<1>2. job'.prog = job.prog /\ job'.runs = p
  BY <1>1 DEF CallJob
<1> SUFFICES ASSUME Usable
             PROVE  /\ p = job.prog /\ Sized(p)'
                    /\ RightCode(p)' /\ RightBss(p)'
                    /\ image = "fresh" => RightData(p)'
                    /\ p.bss = 0 => Settled(p)'
  BY <1>0, <1>2 DEF Entered, Usable
<1>3. /\ job.prog \in Programs /\ Accepted = {job.prog}
      /\ Whole(job.prog) \/ (Settled(job.prog) /\ job.prog.bss = 0)
      /\ \A u \in Readings(job.prog) : \A k \in 1..Len(job.prog.imports) :
           u[k] = job.prog.imports[k]
      /\ \A j \in 1..Len(job.prog.relocs) : RecordIntact(job.prog, j)
  BY <1>0, LoaderReads
<1>4. p = job.prog /\ p \in Programs
  BY <1>3
<1>5. mem' = Cleared(p, Patched(p, Len(p.relocs), t, Moved(p, mem)))
  BY <1>3, <1>4 DEF Applied
<1>6. slot.allocated
  BY <1>0 DEF ValidHandle
<1>7. /\ \A i \in 0..(p.code - 1) : mem'[LoadOff(p) + i] = Code(p, i)
      /\ \A a \in BssCells(p) : mem'[a] = Zero
      /\ Whole(p) => \A i \in p.code..(p.code + p.data - 1) :
                       mem'[LoadOff(p) + i] = PackedCell(p, HeaderSize + i)
      /\ p.bss = 0 => \A a \in 0..(FileSize(p) - 1) :
                        a \notin HeaderSize..(ImportOff(p) - 1) => mem'[a] = PackedCell(p, a)
  BY <1>3, <1>4, <1>5, <1>6, EnteredCells
<1>8. Base = 0 /\ Base' = 0 /\ LoadOff(p) \in Nat
  BY <1>0, <1>6, ProgramsAssumption DEF Base, Control, SlotOK, LoadOff, LoadAt
<1>9. Sized(p)'
  BY <1>0, <1>3, <1>4 DEF Sized, Whole, Settled
<1>10. RightCode(p)'
  <2>1. (LoadOff(p))' = LoadOff(p) /\ \A i : (Code(p, i))' = Code(p, i)
    BY <1>0 DEF LoadOff, Code, Base
  <2>2. \A i \in 0..(p.code - 1) : Base' + (LoadOff(p) + i) = LoadOff(p) + i
    BY <1>8, <1>4, ProgramFacts
  <2> QED
    BY <1>7, <2>1, <2>2 DEF RightCode, At
<1>11. RightBss(p)'
  BY <1>0, <1>7 DEF RightBss, BssCells, Base, LoadOff
<1>12. ASSUME image = "fresh"
       PROVE  RightData(p)'
  <2>1. Whole(p)
    BY <1>0, <1>4, <1>12 DEF AtRest, Owner, Inside, ValidHandle
  <2>2. (LoadOff(p))' = LoadOff(p)
    BY <1>0 DEF LoadOff
  <2>3. \A i \in p.code..(p.code + p.data - 1) : Base' + (LoadOff(p) + i) = LoadOff(p) + i
    BY <1>8, <1>4, ProgramFacts
  <2> QED
    BY <1>7, <2>1, <2>2, <2>3 DEF RightData, At
<1>13. p.bss = 0 => Settled(p)'
  BY <1>7, <1>9, <1>10 DEF Settled
<1> QED
  BY <1>4, <1>9, <1>10, <1>11, <1>12, <1>13

\* What a program writes, and its stack, lie outside its file, when it has no
\* BSS, but for the data.
LEMMA ReturnMemory ==
  ASSUME Control, Entered, Return
  PROVE  AtRest'
<1>1. /\ pc = "running" /\ ValidHandle(job.handle) /\ job \in CallJob
      /\ UNCHANGED <<slot, meant>> /\ image' = IF image = "fresh" THEN "used" ELSE image
  BY DEF Return, Control, JobOK, Inside, shell
<1> SUFFICES ASSUME pc' = "shell", image' = "used", Owner'.bss = 0
             PROVE  Settled(Owner)'
  <2>1. pc' \in {"shell", "close"} /\ image' # "fresh"
    BY <1>1 DEF Return, EndCommand
  <2> QED
    BY <2>1 DEF AtRest
<1> DEFINE p == job.prog
<1>2. Owner' = p /\ p \in Programs /\ p.bss = 0
  <2>1. job.cmd \notin ProcCmds
    BY DEF Return, ProcCmds
  <2>2. meant = p
    BY <1>1, <2>1 DEF Control, JobOK, Inside
  <2> QED
    BY <1>1, <2>2 DEF Owner, Inside, CallJob
<1>3. Settled(p) /\ job.runs = p
  BY <1>1, <1>2 DEF Entered, Control, SlotOK
<1> PICK W \in {{}, DataCells(p)} : mem' = Used(p, W)
  BY <1>3 DEF Return
<1>4. /\ slot.allocated /\ Base = 0 /\ slot.capacity = HeapCap
      /\ LoadOff(p) = HeaderSize /\ FileSize(p) <= HeapCap - p.stack
  <2>1. slot.allocated /\ Need(p) <= HeapCap
    BY <1>1, <1>3 DEF ValidHandle, Settled, Sized
  <2> QED
    BY <1>2, <2>1, LoadFacts
<1>5. /\ p.code \in Nat /\ p.data \in Nat /\ p.stack \in Nat /\ FileSize(p) \in Nat
      /\ ImportOff(p) \in Nat /\ HeaderSize \in Nat /\ HeapCap \in Nat
  BY <1>2, ProgramFacts, ProgramsAssumption
<1>6. ImportOff(p) = HeaderSize + p.code + p.data /\ Exec(p) = p.code + p.data
  BY <1>2, <1>5 DEF ImportOff, Exec
<1>7. ImportOff(p) <= FileSize(p)
  <2>1. \A x, y \in Nat : x + y \in Nat /\ x <= x + y
    OBVIOUS
  <2>2. /\ RelocOff(p) \in Nat /\ StrOff(p) \in Nat
        /\ ImportOff(p) <= RelocOff(p) /\ RelocOff(p) <= StrOff(p) /\ StrOff(p) <= FileSize(p)
    BY <1>2, <1>5, <2>1, ProgramFacts, Zenon DEF RelocOff, StrOff, FileSize
  <2> QED
    BY <1>5, <2>2
<1>8. ASSUME NEW a \in Nat, a < FileSize(p),
             a < HeaderSize + p.code \/ a >= HeaderSize + p.code + p.data
      PROVE  mem'[a] = mem[a]
  <2>1. DataCells(p) = (0 + HeaderSize + p.code)..(0 + HeaderSize + (p.code + p.data) - 1)
    BY <1>4, <1>6 DEF DataCells
  <2>2. a \notin DataCells(p)
    BY <1>5, <1>8, <2>1
  <2>3. StackCells(p) = (0 + HeapCap - p.stack)..(0 + HeapCap - 1)
    BY <1>4 DEF StackCells
  <2>4. a \notin StackCells(p)
    BY <1>4, <1>5, <1>8, <2>3
  <2>5. a \in 0..(HeapCap - 1)
    BY <1>4, <1>5, <1>8
  <2>6. a \in DOMAIN mem
    BY <2>5 DEF Control, SlotOK
  <2> QED
    BY <2>2, <2>4, <2>6 DEF Used
<1>9. ASSUME NEW a \in 0..(FileSize(p) - 1), a \notin HeaderSize..(ImportOff(p) - 1)
      PROVE  mem'[a] = PackedCell(p, a)
  <2>1. a \in Nat /\ a < FileSize(p)
        /\ (a < HeaderSize + p.code \/ a >= HeaderSize + p.code + p.data)
    BY <1>5, <1>6, <1>9
  <2> QED
    BY <1>3, <1>8, <1>9, <2>1 DEF Settled
<1>10. ASSUME NEW i \in 0..(p.code - 1)
       PROVE  mem'[HeaderSize + i] = Code(p, i)
  <2>1. HeaderSize + i \in Nat /\ HeaderSize + i < HeaderSize + p.code
    BY <1>5
  <2>2. HeaderSize + i < FileSize(p)
    BY <1>5, <1>6, <1>7, <2>1
  <2>3. mem[0 + (HeaderSize + i)] = Code(p, i)
    BY <1>3, <1>4 DEF Settled, RightCode, At
  <2>4. 0 + (HeaderSize + i) = HeaderSize + i
    BY <2>1
  <2> QED
    BY <1>8, <2>1, <2>2, <2>3, <2>4
<1>11. ASSUME NEW q, q = p
       PROVE  Settled(q)'
  <2>1. Sized(q)'
    BY <1>1, <1>3, <1>11 DEF Settled, Sized
  <2>2. (Base)' = 0 /\ (LoadOff(q))' = HeaderSize /\ \A i : (Code(q, i))' = Code(q, i)
    BY <1>1, <1>4, <1>11 DEF Base, LoadOff, Code
  <2>3. \A i \in 0..(q.code - 1) : 0 + (HeaderSize + i) = HeaderSize + i
    BY <1>5, <1>11
  <2>4. RightCode(q)'
    BY <1>10, <1>11, <2>2, <2>3 DEF RightCode, At
  <2> QED
    BY <1>9, <1>11, <2>1, <2>4 DEF Settled
<1> QED
  BY <1>2, <1>11

LEMMA LoaderInvKept ==
  ASSUME LoaderInv, [Next]_vars
  PROVE  LoaderInv'
<1>1. Control'
  BY ControlKept DEF LoaderInv
<1>2. AtRest' /\ Entered'
  <2>1. CASE Enter
    <3>1. pc' = "running"
      BY <2>1 DEF Enter
    <3> QED
      BY <2>1, <3>1, EnterMemory DEF LoaderInv, AtRest
  <2>2. CASE Return
    <3>1. pc' # "running"
      BY <2>2 DEF Return, EndCommand
    <3> QED
      BY <2>2, <3>1, ReturnMemory DEF LoaderInv, Entered
  <2>3. CASE Close
    <3>1. pc' = "shell" /\ ~slot'.loaded
      <4>1. pc = "close" /\ ValidHandle(job.handle)
        BY <2>3 DEF Close, LoaderInv, Control, JobOK
      <4> QED
        BY <2>3, <4>1 DEF Close, EndCommand, NoSlot
    <3> QED
      BY <3>1 DEF AtRest, Entered
  <2>4. CASE \E p \in Programs : Opened(p)
    <3>1. pc' # "running"
      BY <2>4 DEF Opened, EndCommand
    <3> QED
      BY <2>4, <3>1, OpenedMemory DEF LoaderInv, Entered
  <2>5. CASE Refused \/ HeaderUnread \/ NoRoom \/ \E p \in Programs : ImageUnread(p)
    <3>1. pc' # "running"
      BY <2>5 DEF Refused, HeaderUnread, NoRoom, ImageUnread, Opening, OpenFails, EndCommand
    <3> QED
      BY <2>5, <3>1, OpenMemory DEF LoaderInv, Entered
  <2>6. CASE StaleHandle \/ BadHeader \/ BadImport \/ BadReloc
    <3>1. pc' # "running"
      BY <2>6 DEF StaleHandle, BadHeader, BadImport, BadReloc, ExecFails, EndCommand
    <3> QED
      BY <2>6, <3>1, ExecMemory DEF LoaderInv, Entered
  <2>7. CASE (\E c \in Commands : Open(c)) \/ Run \/ Spawn \/ ProcExec \/ Wait \/ DeleteFile
    <3>1. pc = "shell" /\ pc' # "running"
      BY <2>7 DEF Open, Run, Spawn, ProcExec, Wait, DeleteFile, Start
    <3> QED
      BY <2>7, <3>1, StartMemory DEF LoaderInv, Entered
  <2>8. CASE UNCHANGED vars
    <3>1. UNCHANGED <<mem, slot, pc, job, image>>
      BY <2>8 DEF vars
    <3>2. AtRest'
      <4>1. CASE pc \in {"running", "close"}
        BY <3>1, <4>1 DEF AtRest
      <4>2. CASE pc \notin {"running", "close"}
        BY <2>8, <4>2, StartMemory DEF LoaderInv
      <4> QED
        BY <4>1, <4>2
    <3>3. Entered'
      <4> SUFFICES ASSUME pc = "running", image = "fresh" \/ (image = "used" /\ job.prog.bss = 0),
                          NEW p, p = job.prog
                   PROVE  /\ job.runs = p /\ Sized(p)' /\ RightCode(p)' /\ RightBss(p)'
                          /\ image = "fresh" => RightData(p)'
                          /\ p.bss = 0 => Settled(p)'
        BY <3>1 DEF Entered
      <4>1. /\ job.runs = p /\ Sized(p) /\ RightCode(p) /\ RightBss(p)
            /\ image = "fresh" => RightData(p)
            /\ p.bss = 0 => Settled(p)
        BY DEF LoaderInv, Entered
      <4>2. Sized(p)' /\ RightCode(p)'
        BY <3>1, <4>1 DEF Sized, RightCode, At, Base, LoadOff, Code
      <4>3. RightBss(p)'
        BY <3>1, <4>1 DEF RightBss, BssCells, Base, LoadOff
      <4>4. image = "fresh" => RightData(p)'
        BY <3>1, <4>1 DEF RightData, At, Base, LoadOff
      <4>5. p.bss = 0 => Settled(p)'
        BY <3>1, <4>1, <4>2 DEF Settled
      <4> QED
        BY <4>1, <4>2, <4>3, <4>4, <4>5
    <3> QED
      BY <3>2, <3>3
  <2>9. CASE \E p \in Programs : ImageUnread(p) \/ Opened(p)
    BY <2>4, <2>5, <2>9
  <2>10. \/ (\E c \in Commands : Open(c)) \/ Run \/ Spawn \/ ProcExec \/ Wait \/ DeleteFile
         \/ Refused \/ HeaderUnread \/ NoRoom
         \/ \E p \in Programs : ImageUnread(p) \/ Opened(p)
         \/ StaleHandle \/ BadHeader \/ BadImport \/ BadReloc \/ Enter \/ Return \/ Close
         \/ UNCHANGED vars
    BY DEF Next
  <2>11. CASE Refused \/ HeaderUnread \/ NoRoom
    BY <2>5, <2>11
  <2> QED
    BY <2>1, <2>2, <2>3, <2>6, <2>7, <2>8, <2>9, <2>10, <2>11
<1> QED
  BY <1>1, <1>2 DEF LoaderInv
-----------------------------------------------------------------------------
(* The theorems.                                                           *)

THEOREM LoaderInvHolds == Spec => []LoaderInv
<1>1. LoaderInv /\ [Next]_vars => LoaderInv'
  BY LoaderInvKept
<1> QED
  BY InitOK, <1>1, PTL DEF Spec

\* The heap is always either free or, whole, the slot's.
THEOREM HeapAlwaysOwned == Spec => []HeapOwned
<1>1. LoaderInv => HeapOwned
  BY ProgramsAssumption DEF LoaderInv, Control, SlotOK, HeapOwned
<1> QED
  BY LoaderInvHolds, <1>1, PTL

\* While the shell waits, the handle it keeps opens the image in the slot,
\* whatever the number of generations and wherever the counter wrapped.
THEOREM HandleAlwaysCurrent == Spec => []HandleCurrent
<1>1. LoaderInv => HandleCurrent
  <2> SUFFICES ASSUME LoaderInv, pc = "shell", slot.loaded
               PROVE  ValidHandle(handle) /\ meant # None
    BY DEF HandleCurrent
  <2>1. ValidHandle(handle)
    BY DEF LoaderInv, Control, HandleOK, Inside
  <2>2. meant \in Programs
    BY <2>1 DEF LoaderInv, Control, HandleOK, ValidHandle
  <2> QED
    BY <2>1, <2>2, CompilerAssumption DEF None
<1> QED
  BY LoaderInvHolds, <1>1, PTL

\* What is entered is the program the handle was given for: its code with
\* every patch applied once, its BSS zero and, the first time, its data.
THEOREM AlwaysRunsWhatWasLoaded == Spec => []RunsWhatWasLoaded
<1>1. LoaderInv => RunsWhatWasLoaded
  BY DEF LoaderInv, Entered, RunsWhatWasLoaded
<1> QED
  BY LoaderInvHolds, <1>1, PTL

\* A program without BSS is entered again by every further `run`.
THEOREM AlwaysRunsAgainWithoutBss == Spec => RunsAgainWithoutBss
<1>1. LoaderInv /\ [Next]_vars => [Rerun /\ job.prog.bss = 0 => pc' = "running"]_vars
  <2> SUFFICES ASSUME LoaderInv, Next, Rerun, job.prog.bss = 0, vars' # vars
               PROVE  pc' = "running"
    OBVIOUS
  <2>1. pc = "exec" /\ ValidHandle(job.handle) /\ Usable
    BY DEF Rerun, Usable
  <2>2. ~BadHeader /\ ~BadImport /\ ~BadReloc /\ ~StaleHandle
    BY <2>1, NeverRefused DEF LoaderInv, StaleHandle
  <2>3. Enter
    BY <2>1, <2>2 DEF Next, Open, Run, Spawn, ProcExec, Wait, DeleteFile, Start, Refused,
         HeaderUnread, NoRoom, ImageUnread, Opened, Opening, Return, Close
  <2> QED
    BY <2>3 DEF Enter
<1> QED
  BY LoaderInvHolds, <1>1, PTL DEF Spec, RunsAgainWithoutBss

\* The status of a spawned program is not overwritten before it is taken.
THEOREM StatusAlwaysKept == Spec => StatusKept
<1>1. LoaderInv /\ [Next]_vars
        => [wait.pending /\ wait'.pending => wait'.status = wait.status]_vars
  <2> SUFFICES ASSUME LoaderInv, Next, wait.pending, wait'.pending
               PROVE  wait'.status = wait.status
    OBVIOUS
  <2>0. wait \in [pending: BOOLEAN, status: Statuses \cup {0}, last: Statuses \cup {0}]
    BY DEF LoaderInv, Control, WaitOK
  <2>1. CASE Close
    <3>1. job.cmd # "spawn"
      BY <2>1 DEF Close, LoaderInv, Control, WaitOK
    <3> QED
      BY <2>0, <2>1, <3>1 DEF Close
  <2>2. CASE ProcExec \/ Wait
    BY <2>0, <2>2 DEF ProcExec, Wait
  <2>3. CASE ~(Close \/ ProcExec \/ Wait)
    <3>1. wait' = wait
      BY <2>3 DEF Next, Open, Run, Spawn, DeleteFile, Refused, HeaderUnread, NoRoom,
           ImageUnread, Opened, StaleHandle, BadHeader, BadImport, BadReloc, Enter, Return
    <3> QED
      BY <3>1
  <2> QED
    BY <2>1, <2>2, <2>3
<1> QED
  BY LoaderInvHolds, <1>1, PTL DEF Spec, StatusKept
=============================================================================
