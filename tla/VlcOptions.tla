----------------------------- MODULE VlcOptions -----------------------------
(***************************************************************************)
(* The numeric options ZMediaPlayer.getLibOptions hands to libvlc: the     *)
(* level of --avcodec-skiploopfilter, chosen from the device where the     *)
(* preferences leave it open, and the network cache.                       *)
(*                                                                         *)
(* The options are built for a device and for one like it that is at least *)
(* as fast, with the same preferences, to be compared.                     *)
(*                                                                         *)
(* The names of the specification carry "Options": ZMediaPlayer_proofs     *)
(* extends this module together with MediaOwnership.                       *)
(***************************************************************************)
EXTENDS Integers

CONSTANTS Speeds,      \* CPU frequencies and bogoMIPS, in MHz
          Processors,  \* numbers of processors
          Preferences, \* stored values of "deblocking", a text
          NotANumber,  \* a text that Integer.parseInt refuses
          Caches       \* stored values of "network_caching_value"

Unknown == -1  \* the frequency VLCUtil reports when it cannot be read

ASSUME OptionAssumption ==
  /\ Speeds \subseteq Nat /\ Processors \subseteq Nat
  /\ NotANumber \notin Int
  /\ Preferences \subseteq Int \cup {NotANumber} /\ Caches \subseteq Int

\* VLCUtil.MachineSpecs; an ARMv7 or newer device also has ARMv6.
MachineSpecs ==
  [cpu : {"armv6", "armv7", "x86", "mips"},
   frequency : Speeds \cup {Unknown},
   bogoMIPS : Speeds,
   processors : Processors]

NoSpecs == [cpu |-> "unknown", frequency |-> Unknown, bogoMIPS |-> Unknown,
            processors |-> 0]

VARIABLES deblocking,     \* the preference
          networkCaching, \* the preference
          specs,          \* the device
          faster,         \* a device like it that is at least as fast
          options         \* options[d]: what was built for the device d

optionVars == <<deblocking, networkCaching, specs, faster, options>>

AtLeastAsFast(n, m) ==
  /\ n.cpu = m.cpu
  /\ (n.frequency = Unknown) <=> (m.frequency = Unknown)
  /\ n.frequency >= m.frequency /\ n.bogoMIPS >= m.bogoMIPS
  /\ n.processors >= m.processors

OptionsInit ==
  /\ deblocking \in Preferences /\ networkCaching \in Caches
  /\ specs \in MachineSpecs \cup {NoSpecs}
  /\ faster \in {n \in MachineSpecs \cup {NoSpecs} : AtLeastAsFast(n, specs)}
  /\ options = <<>>

----------------------------------------------------------------------------

\* Mutant of DefaultDeblocking: few processors let the level be low.
DefaultDeblockingFew(m) ==
  CASE m.cpu \in {"armv6", "mips"} -> 4
    [] m.cpu \in {"armv7", "x86"} /\ m.frequency >= 1200 /\ m.processors <= 2 -> 1
    [] m.cpu \in {"armv7", "x86"} /\ m.bogoMIPS >= 1200 /\ m.processors > 2 -> 1
    [] OTHER -> 3

\* The level for a device whose preference leaves it open.
DefaultDeblocking(m) ==
  IF m.cpu \in {"armv6", "mips"} THEN 4
  ELSE IF m.processors > 2 /\ (m.frequency >= 1200 \/ m.bogoMIPS >= 1200) THEN 1
  ELSE 3

getDeblocking(m) ==
  IF deblocking < 0 /\ m # NoSpecs THEN DefaultDeblocking(m)
  ELSE IF deblocking > 4 THEN 3
  ELSE deblocking

\* The level handed to libvlc: -1 where parseInt throws, whatever the device.
DeblockingOption(m) ==
  IF deblocking = NotANumber THEN -1 ELSE getDeblocking(m)

MaxCaching == 60000  \* a minute, in milliseconds

NetworkCaching ==
  IF networkCaching > MaxCaching THEN MaxCaching
  ELSE IF networkCaching < 0 THEN 0 ELSE networkCaching

getLibOptions ==
  /\ options = <<>>
  /\ options' = [d \in {specs, faster} |->
                   [skipLoopFilter |-> DeblockingOption(d),
                    caching |-> NetworkCaching]]
  /\ UNCHANGED <<deblocking, networkCaching, specs, faster>>

OptionsNext == getLibOptions

OptionsSpec == OptionsInit /\ [][OptionsNext]_optionVars

Built == options # <<>>
SkipLoopFilter(m) == options[m].skipLoopFilter

----------------------------------------------------------------------------
(* Properties *)

OptionsTypeOK ==
  /\ deblocking \in Preferences /\ networkCaching \in Caches
  /\ {specs, faster} \subseteq MachineSpecs \cup {NoSpecs}
  /\ Built => options \in [{specs, faster} ->
                             [skipLoopFilter : Int, caching : 0..MaxCaching]]

\* A device that is at least as fast in every respect never has to skip more of
\* the loop filter, nor does a preference apply to one of the two only: the
\* order of the tests in getDeblocking does not undo what they measure.  And a
\* preference that names a level of libvlc is respected, while any other leads
\* to a level libvlc has, but for a negative one on a device nothing is known
\* of, and for a text that is no number: that leaves -1 on every device, as
\* the exception passes over getDeblocking (getLibOptions).
FasterSkipsNoMore ==
  Built =>
    /\ SkipLoopFilter(faster) <= SkipLoopFilter(specs)
    /\ deblocking \in 0..4 => SkipLoopFilter(specs) = deblocking
    /\ IF deblocking = NotANumber THEN SkipLoopFilter(specs) = -1
       ELSE SkipLoopFilter(specs) \in 0..4 \/ (deblocking < 0 /\ specs = NoSpecs)
=============================================================================
