---------------------------- MODULE LogicalSource ----------------------------
(***************************************************************************)
(* What a scan of the source stands for, without steps or descriptors: the *)
(* tree that results from following every link as the kernel does.         *)
(***************************************************************************)
EXTENDS TransferPlan

\* What the kernel makes of a path that starts in d, following at most left links.
RECURSIVE Resolve(_, _, _)
Resolve(d, comps, left) ==
  IF comps = <<>> THEN d
  ELSE IF d \notin Dirs THEN Nil
  ELSE IF Head(comps) = Here THEN Resolve(d, Tail(comps), left)
  ELSE LET object == Lookup(d, Head(comps))
       IN IF object \notin Links THEN Resolve(object, Tail(comps), left)
          ELSE IF left = 0 THEN Nil
          ELSE Resolve(IF target[object].abs THEN Slash ELSE d,
                       target[object].comps \o Tail(comps), left - 1)

\* The object a path of the logical tree stands for, Nil for none.
RECURSIVE Logical(_)
Logical(path) ==
  IF path = <<>> THEN root.dir
  ELSE LET d == Logical(Front(path))
           object == IF d \in Dirs THEN entries[d][Last(path)] ELSE Nil
       IN IF object \in Specials \/ (object \in Links /\ ~follow) THEN Nil
          ELSE IF object \in Links THEN Resolve(d, <<Last(path)>>, MaxLinks)
          ELSE object

LogicalPaths == SeqOf(Names, Cardinality(Dirs)) \ {<<>>}

\* A directory below itself, or a link that leads nowhere.
LogicalError ==
  \E path \in LogicalPaths :
    \/ Logical(path) \in Dirs /\ \E k \in 0..(Len(path) - 1) :
                                    Logical(SubSeq(path, 1, k)) = Logical(path)
    \/ /\ Logical(Front(path)) \in Dirs /\ follow
       /\ entries[Logical(Front(path))][Last(path)] \in Links
       /\ Logical(path) = Nil

LogicalTree ==
  {<<path, Logical(path)>> : path \in {p \in LogicalPaths : Logical(p) \in Files \cup Dirs}}

\* A scan that nothing disturbs returns exactly the logical tree, with the sizes of
\* its files, and fails exactly when that tree has a cycle or a link that leads
\* nowhere (Scan, followSymlink, ancestors, maximumSourceSymlinkDepth).
ExactScan ==
  (phase = "facts" /\ touched = {} /\ scanned \in {"snapshot", "empty", "error"}) =>
     IF LogicalError THEN scanned = "error"
     ELSE /\ scanned # "error"
          /\ {<<e.path, e.id>> : e \in captured} = LogicalTree
          /\ \A e \in FilesOf(captured) : e.size = size[e.id]
=============================================================================
