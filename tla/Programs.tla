------------------------------ MODULE Programs ------------------------------
(***************************************************************************)
(* Running a native program: the loader and its single slot                *)
(* (kernel/sima_program.c), the image format and the relocator             *)
(* (kernel/xef_loader.c, tools/seolc_compiler/xef_native_pack.py), the     *)
(* heap the slot is cut from (kernel/sima_heap.asm), the shell commands    *)
(* that use them (kernel/commands.c) and the process calls built on them   *)
(* (kernel/sima_proc.c).                                                   *)
(*                                                                         *)
(* The image is run where it was read: its code is patched in place, its   *)
(* BSS may lie on the tables of the file, and its stack comes down from    *)
(* the end of the slot.  The slot and its contents outlive the command:    *)
(* the shell keeps a handle, and `run` runs the same bytes again.          *)
(*                                                                         *)
(* The unit of memory is a cell.  The header takes HeaderSize of them, a   *)
(* record of a table one, and a cell of code is one the relocator patches  *)
(* or one it does not.                                                     *)
(***************************************************************************)
EXTENDS Integers, Sequences

CONSTANTS
  Programs,    \* the compiled programs: records of Compiled
  Names,       \* the names of files the shell may try to open
  Searches,    \* command |-> the candidates, in order, of each name it tries
  HeaderSize,  \* XEFN_HEADER_SIZE
  HeapCap,     \* SIMA_HEAP_USABLE
  HeapBase,    \* the offset of sima_heap_buf in the kernel's segment
  Apis,        \* 1..Apis: the functions a program may import
  GenMod,      \* 2^16: a generation is a 16-bit number
  Statuses,    \* exit codes
  Commands,    \* the commands issued, out of AllCommands
  MaxOps,      \* bound: commands in one behaviour
  MaxFaults    \* bound: reads that fail in one behaviour

AllCommands == {"load", "run", "exec", "builtin", "spawn", "procexec", "wait"}

(* What the compiler hands to the packer: sizes, the functions imported,   *)
(* and the places in the code to patch, each with an address in the image  *)
(* or with an index into the imports.  "stack" is what the program uses of *)
(* the stack when it runs.                                                 *)
Compiled == [id: STRING, code: Nat, data: Nat, bss: Nat, stack: Nat,
             imports: Seq(Nat),
             relocs: Seq([at: Nat, kind: {"base", "import"}, arg: Nat])]

Exec(p) == p.code + p.data + p.bss
ImportOff(p) == HeaderSize + p.code + p.data
RelocOff(p) == ImportOff(p) + Len(p.imports)
StrOff(p) == RelocOff(p) + Len(p.relocs)
FileSize(p) == StrOff(p) + Len(p.imports)
RelocAt(p, i) == {j \in 1..Len(p.relocs) : p.relocs[j].at = i}

(* program_required_capacity *)
Need(p) == IF Exec(p) <= FileSize(p) THEN FileSize(p) ELSE Exec(p)

(* Where the code goes: after the header, or over it when the BSS would    *)
(* not fit otherwise.                                                      *)
LoadAt_Over(p, cap) == 0                                   \* mutant
LoadAt(p, cap) == IF p.bss = 0 \/ cap >= HeaderSize + Exec(p)
                  THEN HeaderSize ELSE 0

ASSUME ProgramsAssumption ==
  /\ HeaderSize \in Nat \ {0} /\ HeapCap \in Nat /\ HeapBase \in Nat
  /\ HeapCap > HeaderSize /\ HeapCap % 2 = 0
  /\ HeapBase >= HeapCap            \* the kernel's code lies below its heap
  /\ Apis \in Nat /\ GenMod \in Nat \ {0, 1}
  /\ Commands \subseteq AllCommands
  /\ {MaxOps, MaxFaults} \subseteq Nat

ASSUME CompilerAssumption ==
  /\ Programs \subseteq Compiled
  /\ \A p, q \in Programs : p.id = q.id => p = q
  /\ \A p \in Programs :
       /\ p.code > 0 /\ p.id \notin {"zero", "dirty", "none"}
       /\ \A k \in DOMAIN p.imports : p.imports[k] \in 1..Apis
       /\ \A j \in DOMAIN p.relocs :
            /\ p.relocs[j].at < p.code
            /\ IF p.relocs[j].kind = "base" THEN p.relocs[j].arg < Exec(p)
               ELSE p.relocs[j].arg \in DOMAIN p.imports
            /\ \A k \in DOMAIN p.relocs :
                 p.relocs[k].at = p.relocs[j].at => k = j
       /\ Need(p) <= HeapCap =>       \* it keeps off its own stack
            {LoadAt(p, HeapCap) + Exec(p), FileSize(p)} \subseteq 0..(HeapCap - p.stack)

(* The outcomes of fs_stat, perm_check and fs_is_executable on a name.     *)
NotFound == [id |-> "NOT_FOUND"]
NotExecutable == [id |-> "NOT_EXECUTABLE"]
Forbidden == [id |-> "PERMISSION"]
Files == [Names -> Programs \cup {NotFound, NotExecutable, Forbidden}]
MoveOn == {NotFound, NotExecutable}    \* the search goes on after these

(* A cell: of which file it is, at which offset, and the value the patched *)
(* cells carry (for an import, the number of the function stands for its   *)
(* address).                                                               *)
Cell(p, o, v) == [of |-> p, off |-> o, val |-> v]
Zero == Cell("zero", 0, 0)
Dirty == Cell("dirty", 0, 0)   \* whatever the program or its stack left there
Target(p, i) ==
  IF \E j \in RelocAt(p, i) : p.relocs[j].kind = "base"
  THEN p.relocs[CHOOSE j \in RelocAt(p, i) : TRUE].arg ELSE 0

(* pack_native: header, code, data, then the three tables                  *)
PackedCell(p, o) == Cell(p.id, o, IF o \in HeaderSize..(HeaderSize + p.code - 1)
                                  THEN Target(p, o - HeaderSize) ELSE 0)

VARIABLES
  files,     \* the disk: what opening each name would find
  mem,       \* the heap's memory
  top,       \* heap_top_off
  slot,      \* g_program_slot
  handle,    \* g_loaded_handle; 0 is PROGRAM_HANDLE_INVALID
  wait,      \* g_wait_pending, g_wait_status and g_last_status
  pc,        \* "shell", or where the running command stands
  job,       \* the running command
  rc,        \* the result of the last command
  meant,     \* history: the program the shell's handle was given for
  image,     \* history: "fresh" when read whole, "used" when executed since,
             \* "torn" when a later read failed half-way
  ops, faults

vars == <<files, mem, top, slot, handle, wait, pc, job, rc, meant, image, ops,
          faults>>
memory == <<mem, top, slot, image>>
shell == <<handle, meant>>

None == [id |-> "none"]           \* no program
NoJob == [cmd |-> "none"]
Called(c, h, p) == [cmd |-> c, handle |-> h, prog |-> p, runs |-> None, status |-> 0]
NoSlot(g) == [allocated |-> FALSE, loaded |-> FALSE, mark |-> 0,
              capacity |-> 0, size |-> 0, gen |-> g]
-----------------------------------------------------------------------------
(* The heap: one pointer that goes up and is put back.                     *)

Remaining == HeapCap - top
Align2(n) == n + (n % 2)
SlotSize == Remaining - (Remaining % 2)
Restored_Swapped(mark) == IF mark >= HeapCap THEN mark ELSE HeapCap   \* mutant
Restored(mark) == IF mark <= HeapCap THEN mark ELSE HeapCap

(* program_loader_ensure_slot: the slot there is, or all that is left.     *)
HaveSlot == slot.allocated /\ slot.capacity > 0
CanMakeSlot == Remaining > HeaderSize /\ SlotSize > HeaderSize
NewSlot == [NoSlot(slot.gen) EXCEPT !.allocated = TRUE, !.mark = top,
                                    !.capacity = SlotSize]
EnsuredSlot == IF HaveSlot THEN slot ELSE NewSlot
EnsuredTop == IF HaveSlot THEN top ELSE top + Align2(SlotSize)

(* program_next_generation: skips 0, the invalid handle.                   *)
NextGen_Zero(g) == IF g + 1 = GenMod THEN 0 ELSE g + 1     \* mutant
NextGen(g) == IF g + 1 = GenMod THEN 1 ELSE g + 1

(* program_handle_valid *)
ValidHandle(h) == h # 0 /\ slot.allocated /\ slot.loaded /\ h = slot.gen
-----------------------------------------------------------------------------
(* load_program_with_path: the first candidate whose refusal does not let  *)
(* the search go on decides; when all do, the first refusal that is not    *)
(* NOT_FOUND is the answer.                                                *)
Decider(cands) ==
  LET stops == SelectSeq(cands, LAMBDA n : files[n] \notin MoveOn)
  IN  IF stops # <<>> THEN files[Head(stops)]
      ELSE IF \E i \in DOMAIN cands : files[cands[i]] = NotExecutable
           THEN NotExecutable ELSE NotFound

Start(c) ==
  /\ pc = "shell" /\ ops < MaxOps /\ c \in Commands
  /\ ops' = ops + 1

(* load, exec, and the commands calc, hello and edit that name a built-in  *)
(* program twice                                                           *)
Open(c) ==
  /\ Start(c) /\ c \in {"load", "exec", "builtin"}
  /\ \E s \in Searches[c] : job' = [cmd |-> c, names |-> s]
  /\ pc' = "open"
  /\ UNCHANGED <<files, memory, shell, wait, rc, faults>>

(* run_program *)
Run ==
  /\ Start("run")
  /\ IF handle = 0
     THEN rc' = "NO_PROGRAM" /\ UNCHANGED <<pc, job>>
     ELSE /\ job' = Called("run", handle, meant)
          /\ pc' = "exec" /\ UNCHANGED rc
  /\ UNCHANGED <<files, memory, shell, wait, faults>>

(* proc_spawn and proc_exec: they open the one path they are given.        *)
Spawn_Unguarded ==                                         \* mutant
  /\ Start("spawn")
  /\ \E n \in Names : job' = [cmd |-> "spawn", names |-> <<<<n>>>>]
  /\ pc' = "open"
  /\ UNCHANGED <<files, memory, shell, wait, rc, faults>>
Spawn ==
  /\ Start("spawn")
  /\ IF wait.pending
     THEN rc' = "BUSY" /\ UNCHANGED <<pc, job>>
     ELSE /\ \E n \in Names : job' = [cmd |-> "spawn", names |-> <<<<n>>>>]
          /\ pc' = "open" /\ UNCHANGED rc
  /\ UNCHANGED <<files, memory, shell, wait, faults>>

ProcExec ==
  /\ Start("procexec")
  /\ wait' = [wait EXCEPT !.pending = FALSE]
  /\ \E n \in Names : job' = [cmd |-> "procexec", names |-> <<<<n>>>>]
  /\ pc' = "open"
  /\ UNCHANGED <<files, memory, shell, rc, faults>>

(* proc_wait *)
Wait ==
  /\ Start("wait")
  /\ IF wait.pending
     THEN wait' = [wait EXCEPT !.pending = FALSE, !.last = wait.status]
          /\ rc' = "OK"
     ELSE rc' = "NO_CHILD" /\ UNCHANGED wait
  /\ UNCHANGED <<files, memory, shell, pc, job, faults>>

(* Between two commands a file may be removed.                             *)
DeleteFile ==
  /\ pc = "shell"
  /\ \E n \in Names : files[n] \in Programs
                      /\ files' = [files EXCEPT ![n] = NotFound]
  /\ UNCHANGED <<memory, shell, wait, pc, job, rc, ops, faults>>
-----------------------------------------------------------------------------
(* program_loader_open_common, and what its callers do with the result.    *)

EndCommand(r) == /\ rc' = r /\ pc' = "shell" /\ job' = NoJob

(* run_builtin_program tries its second name after any failure.            *)
OpenFails(r) ==
  IF Len(job.names) > 1
  THEN job' = [job EXCEPT !.names = Tail(@)] /\ UNCHANGED <<pc, rc>>
  ELSE EndCommand(r)

Refused ==
  /\ pc = "open" /\ Decider(Head(job.names)) \notin Programs
  /\ OpenFails(Decider(Head(job.names)).id)
  /\ UNCHANGED <<files, memory, shell, wait, ops, faults>>

HeaderUnread ==
  /\ pc = "open" /\ Decider(Head(job.names)) \in Programs
  /\ faults < MaxFaults /\ faults' = faults + 1
  /\ OpenFails("BAD_FORMAT")
  /\ UNCHANGED <<files, memory, shell, wait, ops>>

(* The slot, once made, stays, whatever becomes of the file.               *)
NoRoom ==
  /\ pc = "open" /\ Decider(Head(job.names)) \in Programs
  /\ IF HaveSlot \/ CanMakeSlot
     THEN /\ Need(Decider(Head(job.names))) > EnsuredSlot.capacity
          /\ slot' = EnsuredSlot /\ top' = EnsuredTop
          /\ OpenFails("FILE_TOO_LARGE")
     ELSE UNCHANGED <<slot, top>> /\ OpenFails("NO_MEMORY")
  /\ UNCHANGED <<files, mem, shell, wait, image, ops, faults>>

(* The first n cells of the file, at the start of the slot.                *)
Read(p, n) == [a \in DOMAIN mem |->
                 IF a \in slot'.mark..(slot'.mark + n - 1)
                 THEN PackedCell(p, a - slot'.mark) ELSE mem[a]]

Opening(p) ==
  /\ pc = "open" /\ p = Decider(Head(job.names)) /\ p \in Programs
  /\ (HaveSlot \/ CanMakeSlot)
  /\ Need(p) <= EnsuredSlot.capacity
  /\ top' = EnsuredTop

(* The read that fails has brought in some of the sectors, or none; the    *)
(* first of them holds the header.  The slot keeps its generation.         *)
ImageUnread(p) ==
  /\ Opening(p)
  /\ faults < MaxFaults /\ faults' = faults + 1
  /\ slot' = EnsuredSlot
  /\ \E n \in {0} \cup HeaderSize..(FileSize(p) - 1) : mem' = Read(p, n)
  /\ image' = "torn"
  /\ OpenFails("IO")
  /\ UNCHANGED <<files, shell, wait, ops>>

(* program_loader_commit: a new generation, which the shell's commands     *)
(* keep in g_loaded_handle                                                 *)
Opened(p) ==
  /\ Opening(p)
  /\ slot' = [EnsuredSlot EXCEPT !.loaded = TRUE, !.size = FileSize(p),
                                 !.gen = NextGen(@)]
  /\ mem' = Read(p, FileSize(p))
  /\ image' = "fresh"
  /\ IF job.cmd \in {"load", "exec", "builtin"}
     THEN handle' = slot'.gen /\ meant' = p
     ELSE UNCHANGED shell
  /\ IF job.cmd = "load" THEN EndCommand("OK")
     ELSE /\ job' = Called(job.cmd, slot'.gen, p)
          /\ pc' = "exec" /\ UNCHANGED rc
  /\ UNCHANGED <<files, wait, ops, faults>>
-----------------------------------------------------------------------------
(* program_loader_exec and xef_native_exec_ctx.                            *)

Base == slot.mark
At(a) == mem[Base + a]
LoadOff(p) == LoadAt(p, slot.capacity)
Intact(p, a) == At(a) = PackedCell(p, a)

(* The program whose header the image starts with, if one does; then its   *)
(* sizes must fit the size of the image.                                   *)
HeaderOf == {p \in Programs : \A a \in 0..(HeaderSize - 1) : Intact(p, a)}
Accepted == {p \in HeaderOf : StrOff(p) + Len(p.imports) <= slot.size}

(* What the loader reads from the tables now.  An entry that was zeroed    *)
(* names the string at 0, a zeroed string names no function, and a zeroed  *)
(* relocation record has no type; of other contents anything may be read.  *)
StringSays(p, k) ==
  {s \in 0..Apis :
     IF Intact(p, StrOff(p) + k - 1) THEN s = p.imports[k]
     ELSE At(StrOff(p) + k - 1) = Zero => s = 0}
ImportSays(p, k) ==
  {s \in 0..Apis :
     IF Intact(p, ImportOff(p) + k - 1) THEN s \in StringSays(p, k)
     ELSE At(ImportOff(p) + k - 1) = Zero => s \in StringSays(p, 1)}
Readings(p) ==
  {t \in [1..Len(p.imports) -> 0..Apis] :
     \A k \in DOMAIN t : t[k] \in ImportSays(p, k)}
RecordIntact(p, j) == Intact(p, RelocOff(p) + j - 1)
RecordZero(p, j) == At(RelocOff(p) + j - 1) = Zero

(* BASE16 adds the load address while the value is below the load size;    *)
(* IMPORT16 overwrites.                                                    *)
Rebased_Always(p, c) ==                                    \* mutant
  [c EXCEPT !.val = @ + HeapBase + Base + LoadOff(p)]
Rebased(p, c) == IF c.val < Exec(p)
                 THEN [c EXCEPT !.val = @ + HeapBase + Base + LoadOff(p)] ELSE c
Patched(p, n, t, m) ==               \* by the first n records
  [a \in DOMAIN m |->
    LET js == {j \in RelocAt(p, a - Base - LoadOff(p)) : j <= n}
    IN  IF js = {} THEN m[a]
        ELSE LET r == p.relocs[CHOOSE j \in js : TRUE]
             IN  IF r.kind = "base" THEN Rebased(p, m[a])
                 ELSE [m[a] EXCEPT !.val = t[r.arg]]]

(* The code and the data over the header, where they have to go there.     *)
Moved(p, m) ==
  IF LoadOff(p) = HeaderSize THEN m
  ELSE [a \in DOMAIN m |-> IF a - Base \in 0..(p.code + p.data - 1)
                           THEN m[a + HeaderSize] ELSE m[a]]

BssCells(p) == (Base + LoadOff(p) + p.code + p.data)..(Base + LoadOff(p) + Exec(p) - 1)
Cleared(p, m) == [a \in DOMAIN m |-> IF a \in BssCells(p) THEN Zero ELSE m[a]]

(* A call that fails: the shell prints the result, except that a handle    *)
(* no longer valid is dropped; the process calls close the program first.  *)
ExecFails(r) ==
  IF job.cmd \in {"spawn", "procexec"}
  THEN pc' = "close" /\ UNCHANGED <<job, rc, shell>>
  ELSE EndCommand(r)
       /\ IF job.cmd = "run" /\ r = "BAD_HANDLE"
          THEN handle' = 0 /\ meant' = None ELSE UNCHANGED shell

StaleHandle ==
  /\ pc = "exec" /\ ~ValidHandle(job.handle)
  /\ ExecFails("BAD_HANDLE")
  /\ UNCHANGED <<files, memory, wait, ops, faults>>

BadHeader ==
  /\ pc = "exec" /\ ValidHandle(job.handle) /\ Accepted = {}
  /\ ExecFails("BAD_FORMAT")
  /\ UNCHANGED <<files, memory, wait, ops, faults>>

BadImport ==
  /\ pc = "exec" /\ ValidHandle(job.handle)
  /\ \E p \in Accepted : \E t \in Readings(p) : \E k \in DOMAIN t : t[k] = 0
  /\ ExecFails("IMPORT")
  /\ UNCHANGED <<files, memory, wait, ops, faults>>

(* The memory after the first n records.  A record that is neither intact  *)
(* nor zeroed patches anything in the load area.                           *)
Applied(p, t, n) ==
  IF \A j \in 1..n : RecordIntact(p, j)
  THEN Patched(p, n, t, Moved(p, mem))
  ELSE [a \in DOMAIN mem |-> IF a - Base - LoadOff(p) \in 0..(Exec(p) - 1)
                             THEN Dirty ELSE mem[a]]

BadReloc ==
  /\ pc = "exec" /\ ValidHandle(job.handle)
  /\ \E p \in Accepted : \E t \in Readings(p) :
       /\ \A k \in DOMAIN t : t[k] # 0
       /\ \E n \in DOMAIN p.relocs :
            /\ ~RecordIntact(p, n) /\ \A j \in 1..(n - 1) : ~RecordZero(p, j)
            /\ mem' = Applied(p, t, n - 1)
  /\ ExecFails("RELOC")
  /\ UNCHANGED <<files, top, slot, image, wait, ops, faults>>

(* xef_call_entry: the program runs.                                       *)
Enter ==
  /\ pc = "exec" /\ ValidHandle(job.handle)
  /\ \E p \in Accepted : \E t \in Readings(p) :
       /\ \A k \in DOMAIN t : t[k] # 0
       /\ \A j \in DOMAIN p.relocs : ~RecordZero(p, j)
       /\ mem' = Cleared(p, Applied(p, t, Len(p.relocs)))
       /\ job' = [job EXCEPT !.runs = p]
  /\ pc' = "running"
  /\ UNCHANGED <<files, top, slot, image, shell, wait, rc, ops, faults>>

(* It returns: it may have written to its data and its BSS, and its stack  *)
(* has been used.                                                          *)
StackCells(p) == (Base + slot.capacity - p.stack)..(Base + slot.capacity - 1)
DataCells(p) == (Base + LoadOff(p) + p.code)..(Base + LoadOff(p) + Exec(p) - 1)
Used(p, W) == [a \in DOMAIN mem |-> IF a \in W \cup StackCells(p) THEN Dirty ELSE mem[a]]

Return ==
  /\ pc = "running"
  /\ \E W \in {{}, DataCells(job.runs)} : mem' = Used(job.runs, W)
  /\ IF job.cmd \in {"spawn", "procexec"}
     THEN /\ \E s \in Statuses : job' = [job EXCEPT !.status = s]
          /\ pc' = "close" /\ UNCHANGED rc
     ELSE EndCommand("OK")
  /\ image' = IF image = "fresh" THEN "used" ELSE image
  /\ UNCHANGED <<files, top, slot, shell, wait, ops, faults>>

(* program_loader_close and the end of proc_spawn and of proc_exec         *)
Close ==
  /\ pc = "close"
  /\ IF ValidHandle(job.handle)
     THEN top' = Restored(slot.mark) /\ slot' = NoSlot(slot.gen)
     ELSE UNCHANGED <<top, slot>>
  /\ IF job.runs = None
     THEN EndCommand("FAILED") /\ UNCHANGED wait
     ELSE /\ EndCommand("OK")
          /\ wait' = IF job.cmd = "spawn"
                     THEN [pending |-> TRUE, status |-> job.status, last |-> job.status]
                     ELSE [wait EXCEPT !.last = job.status]
  /\ UNCHANGED <<files, mem, image, shell, ops, faults>>
-----------------------------------------------------------------------------
Init ==
  /\ files \in Files
  /\ mem = [a \in 0..(HeapCap - 1) |-> Zero]
  /\ top = 0 /\ slot = NoSlot(0)
  /\ handle = 0 /\ meant = None /\ image = "used"
  /\ wait = [pending |-> FALSE, status |-> 0, last |-> 0]
  /\ pc = "shell" /\ job = NoJob /\ rc = "OK"
  /\ ops = 0 /\ faults = 0

Next ==
  \/ \E c \in Commands : Open(c)
  \/ Run \/ Spawn \/ ProcExec \/ Wait \/ DeleteFile
  \/ Refused \/ HeaderUnread \/ NoRoom
  \/ \E p \in Programs : ImageUnread(p) \/ Opened(p)
  \/ StaleHandle \/ BadHeader \/ BadImport \/ BadReloc \/ Enter \/ Return \/ Close

Spec == Init /\ [][Next]_vars
-----------------------------------------------------------------------------
(* Properties.                                                             *)

Jobs == {NoJob}
  \cup [cmd: {"load", "exec", "builtin", "spawn", "procexec"}, names: Seq(Seq(Names))]
  \cup [cmd: AllCommands, handle: 0..(GenMod - 1), prog: Programs,
        runs: Programs \cup {None}, status: Statuses \cup {0}]

TypeOK ==
  /\ files \in Files
  /\ DOMAIN mem = 0..(HeapCap - 1)
  /\ top \in 0..HeapCap
  /\ slot \in [allocated: BOOLEAN, loaded: BOOLEAN, mark: 0..HeapCap,
               capacity: 0..HeapCap, size: Nat, gen: 0..(GenMod - 1)]
  /\ handle \in 0..(GenMod - 1) /\ meant \in Programs \cup {None}
  /\ wait \in [pending: BOOLEAN, status: Statuses \cup {0}, last: Statuses \cup {0}]
  /\ pc \in {"shell", "open", "exec", "running", "close"}
  /\ job \in Jobs
  /\ image \in {"fresh", "used", "torn"}
  /\ ops \in 0..MaxOps /\ faults \in 0..MaxFaults

(* The heap has one user: while there is a slot it reaches from the mark   *)
(* to the top, and without one the whole heap is free, however many        *)
(* programs were opened, refused, run and closed.                          *)
HeapOwned ==
  IF slot.allocated THEN slot.mark + slot.capacity = top /\ top <= HeapCap
  ELSE top = 0 /\ ~slot.loaded

(* Whenever the shell waits for a command and an image is loaded, the      *)
(* shell's handle is the one that opens it: no load, failed load, spawn or *)
(* wrap of the generation counter leaves an image that `run` refuses, or a *)
(* handle that names an image loaded for somebody else.                    *)
HandleCurrent ==
  pc = "shell" /\ slot.loaded => ValidHandle(handle) /\ meant # None

(* A program that is entered is the one its handle was given for, its code *)
(* is what the compiler packed with every patch applied exactly once for   *)
(* the place it runs at, its BSS is zero, and its data are the compiler's  *)
(* unless it ran before.  Without BSS this holds for every further `run`   *)
(* of the same image too ("Idempotent patching", xef_loader.c).            *)
Code(p, i) ==
  LET js == RelocAt(p, i)
      r == p.relocs[CHOOSE j \in js : TRUE]
  IN  Cell(p.id, HeaderSize + i,
           IF js = {} THEN 0
           ELSE IF r.kind = "base" THEN r.arg + HeapBase + Base + LoadOff(p)
           ELSE p.imports[r.arg])
RightCode(p) == \A i \in 0..(p.code - 1) : At(LoadOff(p) + i) = Code(p, i)
RightData(p) == \A i \in p.code..(p.code + p.data - 1) :
                  At(LoadOff(p) + i) = PackedCell(p, HeaderSize + i)
RightBss(p) == \A a \in BssCells(p) : mem[a] = Zero

RunsWhatWasLoaded ==
  pc = "running" /\ (image = "fresh" \/ (image = "used" /\ job.prog.bss = 0)) =>
    /\ job.runs = job.prog
    /\ RightCode(job.prog) /\ RightBss(job.prog)
    /\ image = "fresh" => RightData(job.prog)

(* A program without BSS that ran can be run again: `run` enters it,        *)
(* whatever it and its stack have written meanwhile.  (A BSS that covers   *)
(* the tables is cleared over them, and the second `run` is refused.)      *)
Rerun == pc = "exec" /\ job.cmd = "run" /\ ValidHandle(job.handle) /\ image = "used"
RunsAgainWithoutBss == [][Rerun /\ job.prog.bss = 0 => pc' = "running"]_vars

(* The exit status of a spawned program waits, unchanged, until proc_wait  *)
(* has taken it or proc_exec has dropped it.                               *)
StatusKept == [][wait.pending /\ wait'.pending => wait'.status = wait.status]_vars
=============================================================================
