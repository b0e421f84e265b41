---------------------------- MODULE RuntimeConfig ----------------------------
(***************************************************************************)
(* The cores of the runtime settings (config.rs) and the start of the EAL  *)
(* with them (eal_init in dpdk/mod.rs).  A RuntimeConfig is cut down to    *)
(* its cores: the other settings are passed on as they are, and no code    *)
(* depends on them.                                                        *)
(***************************************************************************)
EXTENDS Naturals, Sequences, FiniteSets, SequencesExt

CONSTANT Configs    \* the settings a run may have been started with

\* A core is its number; ports hold the cores of each PortConfig.
ASSUME ConfigsAssumption ==
  \A c \in Configs : /\ c.master_core \in Nat
                     /\ c.cores \in Seq(Nat)
                     /\ c.ports \in Seq(Seq(Nat))

VARIABLES
  config,    \* the settings
  lcores,    \* the value given to the EAL with -l
  eal        \* whether the EAL runs

configVars == <<config, lcores, eal>>

(***************************************************************************)
(* Vectors of cores.                                                       *)
(***************************************************************************)
\* Vec::sort: an element has as many before it as are smaller, or equal and
\* already before it.
sort(cores) ==
  LET Place(i) == Cardinality({j \in DOMAIN cores :
                                 cores[j] < cores[i] \/ (cores[j] = cores[i] /\ j <= i)})
  IN [k \in DOMAIN cores |-> cores[CHOOSE i \in DOMAIN cores : Place(i) = k]]

\* Vec::dedup: drops an element that equals the one before it, and closes the
\* gaps.
dedup(cores) ==
  LET kept     == {i \in DOMAIN cores : i = 1 \/ cores[i] # cores[i - 1]}
      Place(i) == Cardinality({j \in kept : j <= i})
  IN [k \in 1 .. Cardinality(kept) |-> cores[CHOOSE i \in kept : Place(i) = k]]

PortCores(c) == FlattenSeq(c.ports)

\* Mutant: repetitions are dropped before the vector is sorted.
all_coresUnsorted(c) == sort(dedup(<<c.master_core>> \o c.cores \o PortCores(c)))

all_cores(c) == dedup(sort(<<c.master_core>> \o c.cores \o PortCores(c)))

(***************************************************************************)
(* The list of cores for the EAL.  The code searches the text written so   *)
(* far for the digits of the next core.  Cores are separated by a comma    *)
(* and a blank, so the digits are found exactly if they are a part of the  *)
(* digits of a core already in the list: the list is kept as a sequence.   *)
(***************************************************************************)
Digits[n \in Nat] == IF n < 10 THEN <<n>> ELSE Append(Digits[n \div 10], n % 10)

DigitsIn(c, d) ==
  \E i \in 0 .. Len(Digits[d]) - Len(Digits[c]) :
    SubSeq(Digits[d], i + 1, i + Len(Digits[c])) = Digits[c]

TextContains(list, c) == \E i \in DOMAIN list : DigitsIn(c, list[i])

EalCores(c) ==
  LET asked == PortCores(c)
      list[i \in 0 .. Len(asked)] ==
        IF i = 0 THEN <<>>
        ELSE IF TextContains(list[i - 1], asked[i]) THEN list[i - 1]
        ELSE Append(list[i - 1], asked[i])
  IN list[Len(asked)]

\* rte_eal_init refuses a master core that is not in the list.
MasterListed(c, list) == c.master_core \in ToSet(list)

ConfigInit ==
  /\ config \in Configs
  /\ lcores = <<>>
  /\ eal = "down"

\* to_eal_args and the call of rte_eal_init, which may also fail for other
\* reasons.
eal_init ==
  /\ eal = "down"
  /\ lcores' = EalCores(config)
  /\ \/ MasterListed(config, lcores') /\ eal' = "up"
     \/ eal' = "failed"
  /\ UNCHANGED config
=============================================================================
