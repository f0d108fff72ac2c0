------------------------------ MODULE Allocation ------------------------------
(***************************************************************************)
(* The assignment of the files and empty directories of a snapshot to      *)
(* weighted transfers (internal/sourcefiles/allocation.go) and the view of *)
(* each transfer (internal/fileviews/view_tree.go), as operators.          *)
(* Transfers are numbers; an item is a record with a path, a sequence of   *)
(* names, and files have a size.                                           *)
(***************************************************************************)
EXTENDS Integers, Sequences, SequencesExt, FiniteSets, FiniteSetsExt

CONSTANT Word   \* the numbers a uint64 holds are 0 .. Word - 1

ASSUME WordAssumption == Word \in Nat \ {0}

MaxWord == Word - 1

\* An order of relative paths.  The code compares the strings, the model name by
\* name; only the order of files of one size and of empty directories depends on it.
PathLess(p, q) ==
  \E k \in 1..Len(q) :
    /\ \A j \in 1..(k - 1) : j <= Len(p) /\ p[j] = q[j]
    /\ k > Len(p) \/ p[k] < q[k]

\* compareLoad: both products have two words (bits.Mul64), the high ones decide
\* first.
High(product) == product \div Word
Low(product) == product % Word

\* Mutant: the products are truncated to a word.
LessTruncated(left, right) == Low(left.bytes * right.weight) < Low(right.bytes * left.weight)

LessLoaded(left, right) ==
  LET l == left.bytes * right.weight
      r == right.bytes * left.weight
  IN High(l) < High(r) \/ (High(l) = High(r) /\ Low(l) < Low(r))

\* minimumLoad: the first of the least loaded.
MinimumLoad(loads) ==
  CHOOSE t \in DOMAIN loads :
    \A u \in DOMAIN loads : /\ ~LessLoaded(loads[u], loads[t])
                            /\ u < t => LessLoaded(loads[t], loads[u])

\* NewTransferWeights: the weights are a function of their transfers, in the order
\* of their numbers.
Loads(weights) == [t \in DOMAIN weights |-> [weight |-> weights[t], bytes |-> 0]]

\* The order in which files are placed: the largest first.
Before(a, b) == \/ a.size > b.size
                \/ a.size = b.size /\ PathLess(a.path, b.path)
NextFile(files) == CHOOSE f \in files : \A g \in files \ {f} : Before(f, g)

\* allocateFiles begins with nothing placed.
NewPlan(files, weights) == [todo |-> files, loads |-> Loads(weights), owners |-> {}]

\* Its loop: the next file goes to the least loaded transfer t, unless the total of
\* that transfer would not fit a word.
Fits(plan, t) == plan.loads[t].bytes <= MaxWord - NextFile(plan.todo).size

PlaceFile(plan, t) ==
  LET file == NextFile(plan.todo)
  IN [todo |-> plan.todo \ {file},
      loads |-> [plan.loads EXCEPT ![t].bytes = @ + file.size],
      owners |-> plan.owners \cup {<<file.path, t>>}]

\* allocateEmptyDirectories: in turn, in the order of their paths.
AllocateEmptyDirectories(dirs, transfers) ==
  LET Index(d) == Cardinality({e \in dirs : PathLess(e.path, d.path)})
      Transfer(k) == CHOOSE t \in transfers : Cardinality({u \in transfers : u < t}) = k
  IN {<<d.path, Transfer(Index(d) % Cardinality(transfers))>> : d \in dirs}

\* validateTransferAllocation: every owner is known and the totals add up.
ValidAllocation(plan, files, dirs) ==
  LET Total(t) == MapThenSumSet(LAMBDA f : f.size, {f \in files : <<f.path, t>> \in plan.owners})
  IN /\ \A owned \in plan.owners : owned[2] \in DOMAIN plan.loads
     /\ Cardinality(plan.owners) = Cardinality(files) + Cardinality(dirs)
     /\ \A t \in DOMAIN plan.loads : Total(t) = plan.loads[t].bytes

\* AllocateTransferItems: the files are placed, the empty directories follow.
CompletePlan(plan, dirs) ==
  [plan EXCEPT !.owners = @ \cup AllocateEmptyDirectories(dirs, DOMAIN plan.loads)]

-----------------------------------------------------------------------------
(* The view of a transfer                                                  *)

\* buildViewDirectory: the owners of what lies at a path or below it.
Members(plan, path) == {owned[2] : owned \in {o \in plan.owners : IsPrefix(path, o[1])}}

\* child and visibleChildren: a transfer walks to what each step shows it; it
\* always sees the source directory itself.
Visible(plan, transfer, path) ==
  \A k \in 1..Len(path) : transfer \in Members(plan, SubSeq(path, 1, k))
=============================================================================
