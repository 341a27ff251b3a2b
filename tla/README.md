# Seolsem OS: a verification project in TLA+

Seolsem (SIMA) is a 16-bit real-mode operating system for a PC: a boot loader, a
kernel written in C and assembly, a shell, a login, a program loader for XEF
images, the SEOL-C compiler that makes those images, and an installer. This
directory holds TLA+ models of the parts of it where order, failure and shared
memory matter, the TLC runs that check them, and TLAPS proofs about them.
Every definition is translated from the source; `PROJECT.json` names the lines.

    tlc -workers 2 -config FatFs_calls.cfg MCFatFs    # one run
    tlapm ProgramsProofs.tla                          # one set of proofs

## 1. Inventory

Paths are under `src/`. "State" is what a component keeps between calls.

| Component | State | Operations | What makes it correct |
|---|---|---|---|
| FAT file system, `seolsem/kernel/sima_fs.c` | the volume; one cached FAT sector with its dirty flag; the allocation hint; the current directory | write, create/delete file and directory, read, cd, sync, mount | whole files, no shared or leaked clusters, FAT copies equal, the disk never lags a call that returned, a call is atomic, a crash or failed transfer damages one entry at most |
| ATA driver, `seolsem/kernel/sima_ide.c` | the controller | read and write one sector by polling | every wait is bounded; an error is reported |
| Keyboard, `seolsem/kernel/api.asm` (IRQ1 handler, `_read_key`) | modifiers, prefix, keys held, ring of events | an interrupt per byte; the busy wait of the reader | one event per press, in order, nothing left stuck, no lost wake-up |
| Console, `seolsem/kernel/api.asm` (`_print_message`, `_wait_prompt`, `_clear_screen`) | the next line, where the input stands, the screen | print, prompt and edit a line, scroll | the screen shows the buffer; input stays in the buffer and on the screen; no output overwrites other output |
| Accounts and login, `seolsem/kernel/sima_user.c`, `kernel.c` | `/ETC/PASSWD`, the table, who is logged in | start, login, logout, useradd, passwd | no account lost, uids unique, success is stored, ROOT can always log in |
| Environment, `seolsem/kernel/sima_env.c` | at most 8 variables | set, unset, append to PATH, load XENV.ENV | the session's variables show the session |
| Permissions, `seolsem/kernel/sima_perm.c` | none | may this user touch this path | system directories are ROOT's; the path judged is the one acted on |
| Shell, `seolsem/kernel/commands.c`, `kernel.c` | the buffer of the line, previous directory, resident image | parse a line, built-in commands, PATH search, prompt, manual pages | the words are those typed; cluster and text of the current directory name one directory, and so do the prompt and `cd -` |
| Program loader, `seolsem/kernel/sima_program.c`, `xef_loader.c`, `xef_exec.asm` | one slot, its generation, the image in the heap | open, run, close | what is entered is what was loaded, patched once; a stale handle is refused |
| Heap, `seolsem/kernel/sima_heap.asm` | the top of a bump allocator | malloc, mark, restore, remaining | the slot is the only owner of what is above its mark |
| Process calls, `seolsem/kernel/sima_proc.c` | one pending exit status | spawn, exec, wait | no status is lost |
| Kernel entry and system calls, `kernel_entry.asm`, `sima_syscall.c` | segments, vectors | start, INT dispatch | a call reaches its function with its arguments |
| Boot loader, `seolsem/bootloader`, and `mbr.asm`, `boot32.asm` of the installer | what is in memory, where the FAT walk stands | partition to boot sector to stage 2 to KERNEL.BIN | the kernel entered is the file, whole; a sound disk boots; every boot ends |
| Installer, `seolsem_installer/bootloader/installer.asm` | the accounts entered, the layout, the next cluster, the hard disk | confirm, enter accounts, swap floppies, validate, partition, format, copy, finish | nothing is written before the floppy is validated; a disk that boots has the whole system, whenever the power went; success means the accounts are there; it ends |
| SEOL-C compiler, `seolsem/tools/seolc_compiler` | none | lex, parse, check, generate, pack | the image means what the source says |
| User programs, `seolsem/programs` | EDIT's buffer and cursor | edit, calculate | no keystroke lost, no overflow |
| Helpers, image tools, tests | none | | |

How they meet. The kernel is single threaded and not reentrant: the shell calls
the file system, the accounts and the loader, each of which runs to its end.
The only concurrency is between that thread and the keyboard interrupt, which
share the event ring. Everything else that is hard comes from below and from
outside: the file system is a sequence of sector transfers, any of which may
fail or be the last before the power goes; accounts and the loader are sequences of file
system calls, any of which may fail; and the loader runs a program in the memory
where it keeps the program's own tables, on a heap it shares with nobody. A
program that is running may overwrite its data, BSS and stack, all of which lie
in that slot. `PROJECT.json` lists each such hazard at its line.

## 2. Modules

| Module | What it is | Code |
|---|---|---|
| `FatFs` | the file system over disk sectors and the FAT cache | `sima_fs.c`, `sima_ide.c` |
| `FileTree` | abstract: a tree of directories and files; each call one change or none | what `sima_fs.h` promises |
| `FatFsTree` | the invariant of the tree of files, for the proofs | |
| `FatFsProofs` | types and the FAT cache; without faults, chains, directories, the image on the disk and the refinement of `FileTree` | |
| `Keyboard` | the controller, the interrupt handler, the ring, the reader | `api.asm` |
| `KeyFifo` | abstract: a bounded queue that drops what does not fit | |
| `KeyboardProofs` | the ring is that queue; no key sticks, each press is one event | |
| `Session` | accounts, login, environment, and the shell commands that touch them | `sima_user.c`, `kernel.c`, `sima_env.c`, `sima_perm.c`, `commands.c` |
| `SessionProofs` | theorems on the accounts, the session and the environment | |
| `Programs` | the shell's and the process calls' use of loader and heap | `sima_program.c`, `xef_loader.c`, `xef_exec.asm`, `sima_heap.asm`, `sima_proc.c`, `commands.c`, `xef_native_pack.py` |
| `ProgramsProofs` | theorems on the loader | |
| `CommandLine` | the parser of a line, in the buffer that holds it | `parse_argv` in `commands.c` |
| `Shell` | the commands that go by a path, the two current directories, permissions, prompt and login loop; extends `CommandLine` | `commands.c`, `kernel.c`, `sima_fs.c` (names and paths), `sima_perm.c` |
| `ShellProofs` | theorems on the parser, on the two current directories and on the prompt; the shell implements the parser | |
| `Boot` | from the first sector to the jump into the kernel, and the volume that mounts | `mbr.asm`, `boot.asm`, `boot32.asm`, `read.asm`, `sima.asm`, `sima_fs.c` (mounting) |
| `BootProofs` | theorems on the loader, the kernel in memory and sound disks | |
| `Installer` | from the confirmation to the restart, sector by sector | `installer.asm` |
| `InstallerProofs` | theorems on the order of the writes, on disks that boot and on finished installations | |
| `Induction` | induction on the natural numbers, least and greatest elements; used by the proofs | |
| `MCFatFs`, `MCKeyboard`, `MCSession`, `MCPrograms`, `MCShell`, `MCBoot`, `MCInstaller` | the instances for TLC | |

Definitions whose names contain an underscore (`NextGen_Zero`) are mutants: a
plausible bug in the definition after them, used to see that the properties notice.
Nothing refers to them.

### FatFs

*State.* `fat` (every copy) and `data` are the disk. `cache`, `cur`, `dirty` are
`g_fat_sector`, `g_cur_fat_sector_lba`, `g_fat_dirty`; `copy` is the loop variable
of `fat_flush_fat_sector`. `hint`, `cwd` are `g_alloc_hint`, `g_cwd_cluster`. A call
in progress is its label `pc` and its locals `f`. `View` is the FAT as
`fat_get_entry` would read it: the cached sector hides the disk.

*Steps.* `Write`, `CreateDir`, `Delete`, `DeleteDir`, `ChangeDir`, `Sync` begin a
call: they do its checks, in the code's order, and leave a label. From there a
step is one access to the FAT cache or one sector written. An access whose sector is not cached waits
while `FlushCopy` writes the dirty one, copy by copy, and `LoadSector` reads the
new one. So a fault or a power loss falls between any two disk writes.

*Faults.* "lost": a write fails without effect. "late": it takes effect and is
reported as failed. "read": a read fails (the code then sees the end of a chain, or
skips a directory sector). The walk of a directory meets the first two as well: to follow
the chain it may have to write the dirty FAT sector (`fat_load_fat_sector`, line 259), and
when that fails the directory seems to end there (`FlushHops` finds the hop, `WalkFails` is
the failure; `SlotFails` and `ExtendFails` the two walks of a store). "crash": the power goes, memory is forgotten, and the
volume is mounted again. `suspect` names the entries the call in progress was
changing when the fault came, and `cut` is set once a fault hit the walk of a directory or the
undoing of its extension; both belong to the properties, and no action reads them.

*Abstractions.* A cluster is one sector; a read of directory clusters inside a
lookup is one step with the step that uses it; names are values here (their conversion is in `Shell`); FAT12, FAT16's
fixed root and read-only media are left out. A cluster read as a directory that
holds file data is seen empty. A file's content is a payload and the index of the cluster.

### Keyboard

*State.* `held`, `presses`, `codes` are the person typing; `pend`, `out`, `irr` the
controller's queue, its output register and the interrupt request; `iflag`, `shadow`
the CPU's interrupt flag and the instruction after STI that still runs
undisturbed; `isr`, `pc` where handler and reader stand; `shift`, `ctrl`, `ext`,
`down` the decoder; `queue`, `head`, `tail` the ring; `got` the key the reader returned.
`lost` records an overrun.

*Steps.* `Interrupt`, `Drain`, `Drained`, `EndInterrupt` are the handler (it runs
with interrupts off, so the ring steps inside it are one); `Call`, `Cli`, `Empty`,
`Loop`, `Fetch`, `StepTail`, `Leave` are `_read_key`, an instruction at a time where
an interrupt may come between. Not modelled: ALT, set-2 codes, the mouse's bytes,
and the polling path no caller reaches.

### Session

*State.* `passwd` (the lines of the file), `dirs` (which directories exist), and in
memory `users`, `current`, `env`, `cwd`, `prev` (the shell's `prev_path`). `job` is the call in progress.

*Steps.* One per file system call: `Boot`, `BootDir`, `BootSync`, `BootDone` are
`user_init`; `Login`, `Logout`; `UserAdd`, `AddDir`, `AddSync`; `Passwd`,
`PasswdSync`; `CdHome`, `CdBack` and `ChangeDir` are `run_cd`. `Edit` is the shell's `write` on PASSWD by
hand and `Rmdir` and `Mkdir` a directory removed or made under an account. `Far` are the directories
whose path has 64 characters or more; `Kept` is what `env_set` stores of a path: all of it, but of these only a
part (`Stump`). `Fault` lets any file call fail; "torn" leaves
a damaged PASSWD after a power loss, which is what `FatFs` shows a crash can leave of the file being written.

### Programs

*State.* `files` (what each path is), `mem` (the heap, a cell at a time), `top`
(the heap's top), `slot` (`g_program_slot`), `handle` (the shell's resident handle), `wait`
(the pending exit status), `pc`, `job` (the command in progress), `rc`. `meant` and
`image` say which program was last opened through the handle and whether it has
run; they belong to the properties.

*Steps.* `Start` and `Run`, `Spawn`, `ProcExec`, `Wait` begin a command; `Opening`
and `Opened` are `program_loader_open_common` with a failed read at either place; `StaleHandle` is
`program_loader_exec`, and `BadHeader`, `BadImport`, `BadReloc` and `Enter` are `xef_native_exec_ctx`, which calls
`xef_validate_header`, `xef_build_import_addr_table` and `xef_apply_relocs`;
`Return` the program's return, `Close` the close.

*Memory.* A cell stands for a unit of the image: a header, code or data cell, an import, a
relocation record, a name. A cell remembers which file it came from, its place
there and its value, so the loader's reads of tables that BSS or stack has
covered are what the bytes would say: zero after the clear, anything after the program ran.

### CommandLine and Shell

*State.* `line` is what was typed, `mem` is `argv_buffer`, `src`, `dst`, `single`,
`double` and `argv` are the variables of `parse_argv`, and `at` says where it stands.
`cwd` and `path` are `g_cwd_cluster` and `g_cwd_path`, the two current directories of
the file system; `prev` is `run_cd`'s `prev_path`; `dirs`, `files` and `who` are what the
commands see of the disk and of the session. `lost` (the text was cut or replaced) and
`left` (where the last cd came from) belong to the properties.

*Steps.* `Login`, then `Type` puts a line into the buffer, `Parse` is one step of
`parse_argv` (a blank, the start or end of a word, a quote, a character with its
escape), and `RunLine` is the command: denied, failed or done, and the buffers cleared.
A command has an action of its own where the path decides what happens; `RunOther` stands for
those that only print or whose state another module keeps.

*Paths.* `ResolveDir` and `Named` are the walks from the cluster, over the names the
disk has and their 8.3 form; `Normalize` is the walk of the text, which knows no disk.
They are written apart, as in the code, and `TextNamesObject` is what relates them.
A segment is a sequence of characters; a path is one character of a line, given its
meaning by `Paths`; a word that is none is the name of something in the current
directory. `Letters` is what names are made of. Disk failures and the FAT are in `FatFs`.

### Boot

*State.* A sector is its LBA. `mem` says which sector each cell of memory was last
read from, counted from the segment stage 2 runs in; `img` is the loop of `load_img`,
`io` that of `read_sectors_lba`, `ptr` the ES:BX of the kernel load, `cluster` and
`left` are `cur_cluster` and `kernel_size`, `slot` is the place and the counter of
the directory scan.

*Steps.* `Mbr`; `LoadImg`, `ReadData`, `Stage1Done` are either boot sector; `Sima`,
`FindKernel`, `LoadLoop`, `NextCluster32`, `Follow`, `KernelLoaded` are stage 2, and
`ReadSector`, `ReadDone` its sector loop, one sector a step. `Reboot` is the key that
restarts the machine after an error; memory keeps what it held. What a lookup yields
depends on the sector that is in the buffer: the entry if it is the right one,
anything otherwise. `BootPart` is the partition `mbr.asm` takes: without an active
entry, whatever low memory says. `Mounted` is what `fs_init` then makes of the same disk: partition,
FAT and data area, type of FAT.

*Faults.* "early": a read of `mbr.asm` or `load_img`; "bios": a reset or geometry
call; "chs" and "edd": a read of stage 2 by either method.

*Abstractions.* FAT entries are whole (a FAT12 entry that straddles two sectors is in
its cluster's sector); LBAs have no width; the A20 gate is left out, since `sima.asm`
does not test its result. The kernel's own sector has the opcode 0xEB at the entry;
any other sector may have it there by chance.

### Installer

*State.* `hdd` is a function on the sectors written so far; `floppy` is what is in
the source drive; `retry`, `users`, `rootpw`, `spc`, `fatSecs`, `next` are
`src_retry_left`, `inst_user_*`, `inst_root_pass`, `dst_spc`, `dst_fat_secs`,
`dst_next_cluster`, and `at` the `dst_*_cluster` variables. `pc` is the procedure
that comes next, `todo` the sector operations of the one that runs.

*Steps.* `Confirm`, `SetRootPassword`, `AddUser`, `UsersDone` are the dialogs; `TryB`,
`Swap`, `SwapProgram` the floppies tried, with any floppy or none in the drive;
`Validate` and `Layout` the checks and the search for cluster and FAT size, a round
at a time. From `WriteMbr` to `WriteRootDir` an action is a procedure that writes: it
puts its sector operations into `todo`, and `Step` carries them out one by one, or
one fails for good and the installer halts. `PowerOff` may come between any two, and
`Restart` runs the installer again on what the disk holds.

*Reading the disk.* The properties read `hdd` as `boot32.asm`, `sima.asm` and the kernel would: the
layout from the boot sector, chains from the first FAT, names from directory
sectors. `MountsAsFat32` is the kernel's own test, by the number of clusters. `KernelBoots` is what `Boot` needs to enter a kernel; the account lines of
`Passwd` are what `Session` starts from.

*Abstractions.* Sizes are in sectors; a sector holds one thing; the three attempts at
a sector are one; EDD and CHS addressing are one. Names that are refused as such are not typed;
a duplicate is.

## 3. Runs

| Run | Shows |
|---|---|
| `FatFs_calls` | four calls, or three and one fault of any kind. Files but the one in progress stay whole, clusters are not shared; without a fault none is leaked, no entry is hidden behind an end mark, names are unique, the disk shows what the kernel shows and the current directory lives; FAT copies agree and success is on the disk whatever failed before; power loss between any two writes damages only the entry in progress |
| `FatFs_refine` | on the smallest volume whose directories have several clusters, each with its own FAT sector, with up to three failed writes, which meet lookups, searches for a slot, extensions and recoveries: the file system implements `FileTree`, each call one change or none, until a fault cuts a directory; every call returns |
| `FatFs_rmdir` | *finding*: a directory filled with deleted entries is refused as not empty |
| `Keyboard_typing` | one event per press whatever the modifiers do meanwhile; nothing left stuck when the keyboard is quiet; the ring, overrun while it is read, implements `KeyFifo`; every byte is taken and a waiting reader gets its key |
| `Session_accounts` | no account lost or changed by a call that is not about it, uids unique, success is on the disk, the variables show the session (PWD as much of the path as a variable holds), and after a power loss that may damage PASSWD the next start lets ROOT log in |
| `Session_read` | *finding*: one failed read of PASSWD and every account is erased |
| `Programs_loader` | what is entered is what was loaded, patched exactly once, with its BSS clear; a program without BSS can be run again; slot, heap and handles stay together when shell and process calls mix; no exit status is lost |
| `Shell_lines` | the words the shell runs are those a reader of the line, character by character, would find, and splitting them in place destroys nothing unread; the text permissions judge names the object the call acts on; `cd -` goes back; the prompt, typed after cd, leads to where the shell is. Deadlock is checked: every line is answered |
| `Boot_path` | floppies (FAT12) and partitioned hard disks (FAT32), with chains that are whole, end early or loop and directories that list the kernel early, late or not at all, with and without BIOS extensions, with up to two failing BIOS calls and restarts: only a whole kernel is entered, nothing stage 2 loads falls on stage 2, a sound disk boots and its kernel mounts the volume it was loaded from, every boot ends |
| `Boot_fallback` | *finding*: one failed extended read, and the CHS read that replaces it goes astray |
| `Installer_install` | two installations in a row, with good, wrong and damaged floppies and one failure or power loss anywhere: nothing is written before validation, what boots is whole, success is complete and mounts as FAT32, the installer ends |
| `Installer_layout` | *finding*: on a 508 MiB disk the search for the FAT size does not settle |

### Findings

Each is a run marked `violation`; its trace is the evidence.

1. `sima_fs.c:1216`: `fat_is_dir_empty` reports a sound directory without an end
   mark as not empty. The comment above the return speaks of a corrupted chain. A
   directory whose clusters are full of deleted entries cannot be removed.
2. `sima_user.c:225`: a PASSWD that cannot be read is taken for one that does not
   exist, and the table of ROOT alone, meant to stay in memory, is then written over it.
3. `sima.asm:612`: "Prefer EDD (LBA) read when available; fall back to CHS on
   failure." The fallback divides DX:AX, which after the failed call holds the drive
   and the status, not the LBA: with drive 0x80 the division overflows and the boot
   hangs. The installer's routine, of the same pattern, reloads the LBA.
4. `installer.asm:4141`: "Iteratively solve FAT size" alternates between two sizes for
   ever when one FAT sector more takes just the cluster that needed it: 1012 and 1013
   on a disk of 508 MiB, and likewise at 65, 112, 126, 1018, 2050 and 4099 MiB.
   The installer hangs before it writes.

More is in the model without a run of its own. In the file system: `fat_next_cluster`
reports a failed write of the dirty FAT sector (`sima_fs.c:259`) as the end of a chain. In a
lookup (`:928`) a name that is there is not found, and the call stores a second entry
of it and reports success; in the search for a slot (`:1025`) a directory is extended that had
one; in an extension (`:1056`) the new cluster is linked behind one in the middle and the entries
behind that are gone; `fat_is_dir_empty` only refuses. A failed read has the same effects. And when the new cluster of a
directory cannot be cleared and the undoing of its link (`:1081`) fails too, the
directory goes on into a free cluster, which the next file may be given. `Implements`
ends at such a fault: the code keeps no promise on the tree behind it. In the loader: the BSS is cleared over
the import and relocation tables where they lie behind the data
(`xef_loader.c:445`), so the second `run` of a program like EDIT.XEF finds none and
is refused, although the comment in `xef_apply_relocs` calls patching idempotent;
`RunsAgainWithoutBss` leaves such programs out. In the accounts: `user_add_entry`
drops an account silently when the table is full and `useradd` prints "User added."
(the exception in `SuccessIsStored`); a hand-edited PASSWD without ROOT lets nobody
in until the next start, because `user_login` reads the file without the repair
`user_init` makes; and `cd -` follows the shell's `prev_path`, which a login does not
reset, while PWD and OLDPWD are set by every `cd` and by a login. These two are not always
the paths, either: "Keep PWD/OLDPWD in sync for Linux-like behavior." (`commands.c:708`) does not hold
for a path of 64 characters or more, of which `env_set` keeps 63 (`sima_env.c:74`), while
the text of the current directory has up to 127. `SessionEnv` is what does hold: PWD is what `env_set` keeps of the path.

In the boot path: with no active entry `mbr.asm:59` sets SI to the table's offset
without the base the sector was moved to, though its comment promises entry 1; and
`mbr_find_partition_start` then keeps the last entry that is not empty
(`sima_fs.c:296`), though its comment says the first. `SoundBoots` asks for a boot of disks with an active entry.

In the shell: the text of the current directory is "prompt/UI purposes only" by the
comment at `sima_fs.c:115`, but permissions work on it; where it was cut at 127
characters, or replaced by "/" below 32 levels (`sima_fs.c:1510`), they judge another
path than the call takes, until the next cd to an absolute path. `lost` marks that
time, and the properties leave it out. A name of more than 12 characters ends the walk of `cd`
as the end of the path would (`sima_fs.c:1295`): `cd A/LONGLONGLONGNAME` enters A. Words beyond the
sixteenth are dropped in silence (`commands.c:56`). The prompt of a directory of more
than 48 characters outside HOME is "..." alone, because `kernel.c:44` clears the
buffer that it then copies from. The comment at `commands.c:38` does not say that a
backslash escapes a backslash.

Five points in the installer. The second copy of a FAT sector is
written to sector 0x8000 of the same 65536 (`installer.asm:4825` loads AX, the low
word of the LBA, with the buffer's segment), so the second FAT never agrees with
the first, and on disks of about 30 GiB the stray sector falls into the files just
copied. A copy that crosses a multiple of 65536 sectors goes on at the start of the previous
65536 (`installer.asm:3843`: INC does not set the carry JNC tests). With one sector
per cluster the BIN directory lists fourteen files at most (`:4621`). And
between the clearing of the FAT and that of the root directory the listing of an
older installation stands over an empty FAT. `sima.asm` takes a free entry for
cluster 0 and goes on, so that a reboot in that window may enter a kernel of which only the
first cluster is right; `KernelBoots` leaves out a kernel whose first cluster is free,
and `BootsComplete` says that this window is the only one. `validate_username` (`installer.asm:1218`) and
`is_duplicate_username` (`:1307`) let a user be named ROOT, whom `build_passwd_buf` then gives a second line of
that name; `Installable` below leaves that name out.

### Bounds, and why they are enough

*FatFs*: in `FatFs_calls` five clusters, two FAT copies, two entries per FAT sector (so four sectors,
one of which is cached), one directory entry per cluster, two names
(interchangeable), one payload, files of at most two clusters, paths of two names.
With five clusters the volume fills within three calls, so the failure paths of the
allocator, of the chain writer and of the directory's extension all run; two FAT
sectors are enough for every access to evict another's dirty sector; one entry per
cluster makes every name extend its directory. `FatFs_refine` has
three clusters and a FAT sector for each, so that each hop along a directory may have to write another's
sector, and one FAT copy, since `Implements` is about what the kernel sees and `FatFs_calls` about the copies; its
names are all in the root directory. `MaxCalls` is four in every run: four calls make create, fill,
delete and reuse. `MaxOps` counts calls and faults together, four in `FatFs_calls` and six in
`FatFs_refine`, and after a fault there is at least one call that meets what it left.
`MaxFaults` is one in
`FatFs_calls`, whose properties say what one fault may damage, and three in
`FatFs_refine`, where a second strikes the recovery from a first, and a
flush that fails at the end of a call leaves the sector dirty, so that the walk of the next call must write it.

*Keyboard*: a ring of three slots, two of them usable (the code's has 32), and four
presses or releases: enough to overrun the ring and to hold two modifiers and a key
in every order. A letter and an arrow key cover the table and the prefixed codes;
the right CTRL key covers a prefixed modifier. `RingIsFifo` proves the ring for every size.

*Session*: a table of three accounts (the code's holds eight) and four names, so that it
fills; six variables for seven candidates, so that one is dropped; uids up to 15,
which no run of five commands reaches. One directory has a path too long for a variable. Five commands: log in, add, change, log
out, log in as the other. One fault.

*Programs*: a heap of ten cells, headers of two, three generation numbers (so that
they wrap; the code wraps at 65536), five programs: without BSS, with a BSS over all
the tables (like EDIT.XEF), over some of them, one that must be loaded over its own
header, and one too large. Three commands; one fault.

*Shell*: names of one character and an extension of one (the code's have eight and
three), texts of eight characters, three levels, a prompt of seven, a buffer of nine cells, three words. So a
line of five quotes, escapes and blanks, in every combination, makes all states of the parser; one of seven fills the
buffer but for its last cell with more words than argv holds; three names of full length are more than a
text holds, and four levels more than it may have. `Room` is six entries. Four setups, each with its own tree and its own lines: quoting, a home
with a neighbour whose name begins like it, long names, deep trees. Lines follow each other without end: only the disk bounds them.

*Boot*: a geometry of three sectors and two heads, so that stage 2 crosses a head and
a cylinder; a window of four sectors instead of 128, so that the kernel of five wraps
ES:BX, on clusters of one and two sectors; two directory entries and four FAT entries
to a sector, so that the scan and the walk leave the first one. Three partition tables: the active entry first, behind another, or none. `Fat16Min` and `Fat32Min`, which are 4085 and 65525 in the code, are scaled with the disks. Two faults: one may
fail the boot that follows the restart from the other.

*Installer*: disks of 7 and 20 sectors end the layout search by its two ways of giving up; on
38 sectors four per cluster are too few clusters and two are enough. Eight FAT
entries to a sector make the FAT two sectors and the search take several rounds. An
LBA word of 60 values (65536 in the code) holds the whole disk, and the buffer's segment, 34, is a
sector in the data area no file reaches: the two defects above stay out of the way of
the other properties, as they do on most disks. Two users fill the
table; files of one to three sectors on clusters of two leave a remainder or none, and a kernel of two clusters
has a chain to follow. Seven floppies: the
two the repository builds, one with both roles, and one each without signature, with a stage 2 too long,
without a kernel, with a chain too short. One fault in two installations puts a reinstallation
over every state a first one can be interrupted in, and an interruption over a finished one.

Deadlock checking is off in every cfg but `Shell_lines`: calls, keys and commands are bounded, so a
behaviour of the model ends where the program would go on waiting for a person, and a
boot ends in the kernel or with a processor that stopped.

### Fairness

`FatFs`: weak fairness of `Step`, a call in progress goes on. The kernel has one
thread, and each wait of `sima_ide.c` counts down. Nothing is assumed of new calls, or of crashes.
`Keyboard`: weak fairness of `Present` (the controller hands over a byte it holds)
and of `Handler \/ Reader` (the CPU executes instructions); not of the typist, and
not of the reader's calls. `Boot`: weak fairness of `Step`, the
processor goes on; nothing of the key that restarts it. `Installer`: weak fairness of
the program, as before, and of the answers to the prompts for a floppy, since
`InstallEnds` is about an installer somebody sits at; which floppy comes is open. `Session`, `Programs`
and `Shell` are safety only: each of their calls is straight-line code.

## 4. Proofs

TLC shows the properties on the instances above; these hold for every value of
the constants that satisfies the modules' assumptions.

**FatFsProofs** (assumes `FatAssumption`). The invariant `CacheInv` is a type invariant of
the cache (`CacheTypeOK`); that a call is at a flush label exactly when it has
something to flush for (`FlushBlocks`); that while copies are being written those
before `copy` equal the cache and the others equal each other (`WrittenCopies`); and that outside the cached
sector all copies agree (`UncachedAgree`). `CacheCoherent` alone is not
inductive: half way through a flush the copies differ, and only `WrittenCopies` says how.
Theorems: `TypesHold` (no step leaves the volume: `TypeInv` adds to `TypeOK` what the
control needs), `CacheInvariant`, `CacheAlwaysCoherent`, `SuccessAlwaysDurable`.

Its second part is about all chains and directories at once, as long as no
transfer has failed. `TreeInv` (module `FatFsTree`) says that there is a witness of the shape of the volume: `own` gives each
allocated cluster the head of its chain, `rank` its place there, `lev` each directory its depth. `Shape`
relates them to the FAT and the data: a link goes to the next place of the same chain, no two clusters have one
place, every chain has a head that is named by one entry or belongs to the running call (`Pending`), a file's chain
holds its payload place by place, directories are one level below their parent, end markers come last, names once.
The chain a call builds or releases, and the entry it is about to store, are described label by
label (`AtFind` to `AtFree`, in `CallIs`); `own` is 0 on a chain that has lost its name and is being released. `Settled` says where the
disk may lag the cache: on the chain of an entry just stored, and at the end of a directory being extended. None
of the properties is inductive: that `LinkPrev` makes no cycle needs the places, that `FreeCluster` takes no cluster of
another file needs the owners, and that an entry may go to the disk before its FAT sectors needs `Settled`. The lemmas `HeadWalk`,
`ListingIs`, `ScanIs`, `PathsLead` and `PathsReach` say what the recursive walks of `FatFs` find on a
volume of this shape. Theorems: `TreeInvHolds`, `NothingLeaks`, `DirectoriesStaySound`,
`CwdStaysLive`, `DiskStaysCurrent`, as the run states them; `NeverCrossLinked`, `EntriesStayIntact` and
`ImageStaysWhole` with the hypothesis that no transfer has failed; and `FirstCrashSpares`, for the step at which the power first goes,
whatever call is running. What a failed transfer, or a second power loss, leaves is only model-checked.

It ends with the refinement of `FileTree`. `Drawn` adds to the witness a path for each
directory (`pth`) and says that `Tree(View)` is the set of the entries within `MaxDepth` with their paths, and
`Here` the path of `cwd`: the recursive walks of `FatFs` are gone from the argument, and a path
names one entry because names are unique and levels decrease. Each action is then of one of four kinds (`StepShows`):
it stores one entry (`Stores`: `WriteEntry`), takes one away (`Erases`: the tombstone of `Delete` and `DeleteDir`), moves `cwd`
(`Walks`), or leaves every entry and its chain (`Steady`: all other steps, those that build,
seal or release chains among them). `StoreDrawn`, `EraseDrawn`, `WalkDrawn` and `StutterDrawn` map
each to `FileTree`'s. Theorems: `CallsAtOnce`, for every step up to the first fault;
`QuietImplements`, for every behaviour without faults; and `SoundDiskImplements`, which assumes only that
`FaultKinds` is empty. Their conclusion is `Files!Spec`, the whole of `FileTree`. `Implements`, which stops at a cut directory, follows
from it; with lost writes `FatFs_refine` checks it.

**KeyboardProofs** (assumes `KeyboardAssumption`). `KeyInv` is `TypeOK` and
`FetchedIsOldest`: between `Fetch` and `StepTail` the register holds the oldest
event, which no interrupt changes, since the handler only ever moves `head`.
`TypeAlwaysOK` and `RingIsFifo`, the refinement of `KeyFifo` for rings of any size.
`SentInv` speaks of the bytes under way, from the keyboard's to the handler's: `After`
runs the decoding of make, break and prefix bytes over any such sequence, `WellSent` says
that prefixes and codes alternate, and `HeldInTheEnd` that decoding what is under way from
what the handler has down now ends in the keys that are held. Neither half holds without the
other. `CountInv` adds that the presses of a key are those heard and those under way
(`PressesCounted`). Theorems `NothingEverStuck` and `EachPressIsOneEvent`, for
keys with scan codes of their own (`DistinctScans`): `_kbd_down` is indexed by the scan code
without the prefix, so that of two held keys that differ in the prefix alone the handler
hears one.

**SessionProofs** (assumes `SessionAssumption`). `TablesInv`: the table in memory has no name
twice and at most `UserMax` accounts, a command in progress still has the account it found or added, and the
file is one that can be there. What `user_load_passwd` reads is such a table whatever the lines are, and
reading back what `user_sync_passwd` wrote gives the table that was written (`LoadTable`,
`Written`: by induction on the lines). Each property adds an invariant of its own to
`TablesInv`, and the hypotheses the code needs:

- `SuccessAlwaysStored`: none.
- `SessionAlwaysShown` (`EnvInv`): `EnvRoom`, since `env_set` drops a new variable in silence when
  the table is full; `XENV.ENV` must leave room for the kernel's four. `EnvRoom` is about the
  number of variables only. That a value may be cut is in the property: PWD is `Kept(cwd)`, for any set
  `Far` of long paths and any `Stump` of them.
- `AccountsAlwaysKept` (`KeptInv`): no failing read; `Session_read` shows the read that loses accounts.
- `RootAlwaysLogsIn` (`RootInv`): `RootGiven`, that no file written by hand leaves ROOT out,
  and `OneTear`: a write of the file torn by a power loss is the last fault. `user_init` repairs a torn
  file, but a second fault can hit the repair.
- `UidsAlwaysUnique` (`UidInv(top)`): `UidsGiven(top)`, that the files written by hand use no uid twice and
  none above `top`, and `top` and the commands of a behaviour stay below `MaxUid`.

The instances of `MCSession` that check these properties satisfy the hypotheses.

**ProgramsProofs** (assumes `ProgramsAssumption`: the heap's addresses do not overlap its offsets, its capacity is even and exceeds a header; and
`CompilerAssumption`: relocations lie in the code, at distinct places, with
arguments in range, as the compiler makes them, and a running program keeps its stack off its code).
`LoaderInv` has three parts: `Control` (types, the heap's owner, the handle), `AtRest` (an image
that has not run is the file as read, or its patched form with its tables as they
were), and `Entered` (what was entered is what was meant). The hard part is that the loader reads its tables from
memory the program may have covered: `LoaderReads` shows that an unused image's
tables can be read in one way only, and `NeverRefused` that an image without BSS is
never refused. Theorems: `LoaderInvHolds`, `HeapAlwaysOwned`, `HandleAlwaysCurrent`,
`AlwaysRunsWhatWasLoaded`, `AlwaysRunsAgainWithoutBss`, `StatusAlwaysKept`.

**ShellProofs** (assumes `LineAssumption` and `ShellAssumption`). Of the parser: `LineInv`
has the types; from `src` on the buffer is as typed (`Unread`); and inside a word `dst` is not beyond `src`, between
words it may be one beyond it, but then the line is at its end (`Behind`). `InPlace`
alone is not inductive, since it says nothing of `dst` between words. `WordInv` compares the parser with `Words`, a
reading of the line that knows no buffer (`Reading`, a recursive function, by `Induction`): the words
read so far are stored, each at its place in `argv` with a NUL behind it (`Stored`), and the one being read up to
`dst`; the quotes agree; and `CopyChar`, which takes a backslash and its character in one step, never stops
between them. At the end the strings at `argv` are the first words of the line, as many as there is room for.
Every step of the shell is a step of the parser, the clearing of its buffers, a new line, or leaves them
alone: `ShellSplitsLines`, the refinement of `LineSpec`. `WordsAsTyped` needs lines that fit the buffer: the line
editor takes `INPUT_MAX - 1` characters, which `ShellAssumption` says of the lines typed. Theorems:
`LineInvHolds`, `AlwaysInPlace`, `WordInvHolds`, `WordsAlwaysStored` (of the parser, for any lines, one after the other),
`ShellSplitsLines`, `ShellInPlace`, `ShellWordsAsTyped`.

Of the two current directories: `PathInv` says that the directories are a tree (`Closed`), that `cwd` is one of them
and that, unless `lost`, the names of `path` are names as a text keeps them (`GoodName`: upper case, an 8.3 name, not
`.` or `..`) and, each in its 8.3 form (`Real`), lead to `cwd`. The core is `SameWay`: the walk of the text over upper-case names
and the walk of the disk over 8.3 names pass through a text and the directory it names, segment by segment (`Stops`, a recursive function, by
`Induction`); `TextIsFound` is the converse, that a text walked from the root finds what it
names, which needs every ancestor to be there, hence `Closed` and that `rmdir` takes only empty directories. `Closed` also needs
`Arg` to be characters, which `ShellWordsAsTyped` gives. `BackInv` says the same of `prev` and `left`. The theorems are for
every tree, path, home, list of root paths and for all the bounds of texts and names. `CdBackReturns` asks whether the *text* of the directory is forbidden, as
`deny_if_forbidden` does: a name with a dot at its end and the same without it are one entry and two
texts. Theorems: `PathInvHolds`, `TextAlwaysNamesObject`, `PromptAlwaysLeadsHere`, `BackInvHolds`, `CdBackAlwaysReturns`.

**BootProofs** (assumes `BootAssumption` and `LayoutAssumption`: the disk is laid out as the
builder or the installer does it. Stage 2 and the kernel fit between the segments, the FAT of
a floppy and the root directory fit their buffers, clusters lie in the FAT, the boot sector agrees
with the partition table, and stage 2 lies below the cylinder the geometry ends at and
below cylinder 256, where `load_img`'s track byte wraps. TLC evaluates the assumption
on the disks of `MCBoot`). `BootInv` has these parts: types; `Stage1Inv`, that the CHS address `load_img` counts
up by hand is that of the next LBA; `LoaderIntact`; and `KernelInv`, by the place in
the program: what each call of `read_sectors_lba` has copied so far (`ReadInv`), and that
for some number k of clusters (`Progress(k)`) the first k of the chain are in memory in order, the load pointer is
behind them and `kernel_size` is what the rest holds. On FAT12 the FAT is intact only while
bytes are left (`FatIntact`): the last cluster may run over it. `SoundInv` adds for sound disks that no
stop was reached and that the scan of the root directory has not passed the kernel.
Theorems: `BootInvHolds`, `LoaderAlwaysIntact`, `KernelAlwaysWhole`, `SoundAlwaysBoots`; the last needs
the number of clusters of the layout for the kernel to take the volume for a FAT32, and shows that a chain
that holds the size does not end while bytes are left.

**InstallerProofs** (assumes `InstallerAssumption`, and in its theorems `Installable`). What an installation needs is a
hypothesis, not an assumption on the constants, because the run also has disks too small to be
installed. `Installable` says of the constants:

- `SourcesOK`: the kernel floppies have boot code and a kernel that is not empty; the program floppies have a BIN of no more
  than `BinMax` files, none named `.` or `..`, and there is one; no user is named ROOT, `.` or `..`;
  a FAT sector holds more than three entries; what the installer takes for enough clusters is enough for the kernel.
- For every disk size, the layout at which the search settles, if it does, has room for the system (`DiskFits`): it has the clusters;
  BIN's files have slots in its one cluster; data up to the last cluster used lies within one multiple of `WordSize`
  (`copy_file_to_dst` cannot cross one); and no second copy of a FAT sector falls on the partition table, the
  reserved sectors, the first FAT or a cluster used (`fat32_set_entry` sends it to sector 0x8000). These are the defects described above.

TLC evaluates more than this on the disks of `Installer_install` (`MCInstallable`: that every layout the search accepts has room,
reached or not). With the code's constants and floppies of the size the repository builds
(a kernel of 400 sectors, three programs of 120 together, seven users) the sizes from 33 MiB to just under 60 GiB satisfy it, a MiB at
a time, but for about 960 of these 61,374 where sector 0x8000 falls on a cluster used; beyond that the first FAT
itself reaches over sector 0x8000. Where the search does not settle nothing is written, and the theorems say only that.

`BootsComplete` speaks of what is on the disk whenever the power goes, so the invariant `IInv` must know it after
every sector operation. `WillBe` and `WillLink` say what a sector or a FAT entry is, or will be when the queue is done, and
`BootFacts` and `FileFacts` which parts of the system are in that state, procedure by procedure in the order of `Place`; a file that
ends too early on the floppy ends the installation (`Fail` in the queue), and then they say nothing.
`OpsInv` and `PlanInv` say that what is queued writes only the sectors and links only the clusters the
plan gives the running part, so that later parts spare earlier ones (`KeepData`, `KeepLink`, `KeepChain`).
`ClearInv` is about the order of old and new: the FAT sector cleared first unlinks the old kernel, whose cluster is 3
because every installation on a disk of this size has the same layout (`SettledOnce`: the search is deterministic), and
the root directory is blank until the last write. `DiskInv` says what an installation may find and may leave: nothing, or the layout of the
disk's size with a root directory that is blank, that stands over an unlinked kernel, or that lists a whole installation.
`StepIInv` carries out one operation; the other lemmas take one procedure each. TLC checked `IInv` on the small instance before it was proved.

The rest reads such a disk. `AlongRow` follows a chain of clusters in a row, `SlotsSpread`, `DirWhole` and `FileWhole` read directories and
files, `PasswdIs` and `AccountsWhole` the accounts; `HoldsAll` says that a whole installation is found whole by the
operators of `Installer`, which take everything from the sectors alone, and `BlankFails` and `OldFails` that the others
do not boot. Theorems: `Inductive`, `Validated`, `BootsWhole`, `EndsComplete`.

**Induction** rests on the library's well-foundedness of inclusion on finite sets:
`NatSetInduction` says that a set with 0 and the successors of its members has all
natural numbers, so that a recursive function (`Chain`, `LoadTable`) can be reasoned about without
a theorem that takes an operator for its parameter.

*Only model-checked.* Liveness (`CallsReturn`, `BytesAreTaken`, `ReaderGetsKey`, `BootEnds`, `InstallEnds`)
is beyond the prover. Not proved yet: what faults leave of the tree of `FatFs` (`EntriesIntact`,
`NoCrossLink` and `CrashImage` once `faults` is not 0), nor that it refines `FileTree` with lost writes up to the first cut directory. The type invariants of `Keyboard`, `Session`,
`Programs` and `Boot` are proved as parts of the invariants above, and not run; `FatFs_calls` checks that of `FatFs`.

## 5. What is not modelled

In the file system: reads in the middle of a lookup as steps of their own, FAT12
and fixed roots, clusters of several sectors. In the shell: manual pages, the wording of messages, and a line longer than the 64 characters `wait_prompt` lets in. In the session: a file system that
never becomes ready, a read failure within `cd`, a PASSWD longer than its buffer
(511 bytes), PATH appending, XENV.ENV, the decision of `perm_check` (its refusal to open a program, `sima_program.c:153`, is an outcome
in `Programs`; its calls for the files a running program reads and writes, `xef_loader.c:104` and `:127`, are left out). In the boot path: a geometry of 256 heads,
which `sima.asm` and `mbr.asm` count as none, partitions that begin beyond LBA 65535
(`boot32.asm` assumes there are none), free or bad clusters in a chain
(`sima.asm` follows a free entry to cluster 0). In the loader: images no
compiler made, more than 32 imports, empty files. In the installer: the screens, serial
output, CHS conversion, disks smaller than the reserved area (less than 2080 sectors: the
unchecked subtractions at `installer.asm:4089` and `:4123` wrap, and the search for a layout goes on with about 2^32 sectors;
`InstallerAssumption` excludes them), a FAT of more than 65535 sectors (the loop that clears it counts in
16 bits). `PROJECT.json` gives, for each
component, its status and the reason.

## 6. Plan

In this order; each with its own instance and runs.

1. `Console` (`api.asm`): printing, scrolling, and the line that `_wait_prompt` edits;
   screen and buffer agree after every key; theorem: the input position stays on
   the screen for every size of it.
2. `Syscalls` (`kernel_entry.asm`, `sima_syscall.c`): the INT dispatch and its arguments.
3. `Editor`, `Calc` (`EDIT.XC`, `CALC.XC`): the text buffer against a sequence of lines; the expression parser against a reference evaluation.
4. `Codegen`, `Strings`: pure operators against reference definitions on bounded inputs.
5. Proofs: `TreeInv` with `suspect` entries, and from it the refinement of `FileTree` with lost writes (up to `cut`); `Console`'s invariant.
