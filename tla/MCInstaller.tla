---------------------------- MODULE MCInstaller ----------------------------
EXTENDS Installer

Other(k) == [kind |-> k, name |-> "other", secs |-> 0, chain |-> 0]

(* The two floppies make_fat12_image.py builds, and one with both roles.    *)
MCKernelDisk ==
  [id |-> "k", sig |-> TRUE, roles |-> {"kernel"}, bpb |-> TRUE, spc |-> 1,
   stage2 |-> 2, kernel |-> File("KERNEL.BIN", 3, 3), bin |-> NoEntry]
MCProgramDisk ==
  [id |-> "p", sig |-> TRUE, roles |-> {"program"}, bpb |-> TRUE, spc |-> 1,
   stage2 |-> 1, kernel |-> NoEntry,
   bin |-> Dir(<<File("EDIT.XEF", 2, 2), Other("dir"), File("CALC.XEF", 1, 1)>>)]
MCBothDisk ==
  [MCKernelDisk EXCEPT !.id = "b", !.roles = {"kernel", "program"}, !.spc = 2,
     !.stage2 = 1, !.kernel = File("KERNEL.BIN", 1, 1),
     !.bin = Dir(<<File("EDIT.XEF", 1, 1)>>)]

(* Floppies that must be refused, or fail half-way.                         *)
MCWrong ==
  {[MCKernelDisk EXCEPT !.id = "sig", !.sig = FALSE],
   [MCKernelDisk EXCEPT !.id = "stage2", !.stage2 = 3],
   [MCKernelDisk EXCEPT !.id = "nokernel", !.kernel = NoEntry],
   [MCKernelDisk EXCEPT !.id = "short", !.kernel = File("KERNEL.BIN", 3, 2)]}

MCFloppies == {MCKernelDisk, MCProgramDisk, MCBothDisk} \cup MCWrong

(* What the theorems of InstallerProofs assume of the disks, and more than *)
(* they assume of the layouts, where these are few enough to try: that the *)
(* system fits in every layout the search accepts, reached or not.         *)
ASSUME MCInstallable ==
  HddSizes \subseteq 0..64 =>
    /\ SourcesOK
    /\ \A s \in HddSizes, k \in 1..MaxSpc :
         \A n \in 1..s : Accepted(s, k, n) => DiskFits(s, k, n)

(* A disk image of 508 MiB: a size at which the search does not settle.     *)
MCHddSizes == {508 * 2048}
=============================================================================
