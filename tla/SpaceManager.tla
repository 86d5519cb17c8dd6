----------------------------- MODULE SpaceManager -----------------------------
(***************************************************************************)
(* The SpaceManager: the object that gathers function spaces, gives their  *)
(* degrees of freedom (dofs) global ids, and records which dofs interact   *)
(* (the blocks of the system matrix) and which are constrained.            *)
(*                                                                         *)
(* A space does not own its numbering: it has a view of the index table of *)
(* a DofDistribution, and two spaces may view one table (a NURBSSpace and  *)
(* the BSplineSpace it was created from).  The manager caches the smallest *)
(* and the largest id of a space when the space is added, and from then on *)
(* updates the two copies by hand.                                         *)
(*                                                                         *)
(* Debug assertions are preconditions: a call that fails one is no step.   *)
(* The loop of perform_space_dofs_renumbering is one step per iteration    *)
(* (closing = TRUE while it runs); no other call happens meanwhile.        *)
(***************************************************************************)
EXTENDS Integers, Sequences, FiniteSets, EqualityConstraints

CONSTANTS
  Space,          \* the spaces a client may add, named by get_id()
  Table,          \* the DofDistribution objects
  TableOf,        \* TableOf[s]: the table space s views
  Size,           \* Size[t]: number of dofs in table t
  Elements,       \* Elements[t]: for each active element, its local dofs
  FirstDof,       \* FirstDof[t]: id of the first dof of t before any call
  CloseArgs,      \* the arguments clients pass to spaces_insertion_close
  DocumentedUse,  \* clients keep to the phases of the class documentation
  MaxOpenings,    \* bound: how often the insertion phase is opened
  MaxBlocks,      \* bound: blocks of the sparsity pattern
  MaxExtra,       \* bound: calls of add_dofs_connectivity
  MaxConstraints  \* bound: constraints of both kinds together

ASSUME SpaceManagerAssumption ==
  /\ TableOf \in [Space -> Table]
  /\ Size \in [Table -> Nat \ {0}]
  /\ Elements \in [Table -> SUBSET SUBSET Nat]
  /\ \A t \in Table : UNION Elements[t] \subseteq 0 .. (Size[t] - 1)
  /\ FirstDof \in [Table -> Nat]
  /\ CloseArgs \subseteq BOOLEAN
  /\ DocumentedUse \in BOOLEAN
  /\ {MaxOpenings, MaxBlocks, MaxExtra, MaxConstraints} \subseteq Nat

VARIABLES
  index_table,                  \* index_table[t][i]: global id of local dof i
  is_spaces_insertion_open,
  is_spaces_connectivity_open,
  are_equality_constraints_open,
  are_linear_constraints_open,
  closing,                      \* inside perform_space_dofs_renumbering
  spaces_info,                  \* per added space, the cached min and max id
  spaces_with_original_dofs,
  spaces_with_renumbered_dofs,
  space_dofs_offset,
  dofs_view,                    \* the spaces whose ranges the view chains
  spaces_connections,           \* per block <<row, col>>, flag and extra pairs
  extra_dofs_connectivity,      \* pairs that belong to no block
  equality_constraints,         \* <<master, slave>> pairs of global ids
  linear_constraints,           \* <<dof, dofs>>: what a LinearConstraint names
  openings, extras              \* counters behind the bounds

numbering_vars == <<index_table, spaces_info, spaces_with_original_dofs,
                    spaces_with_renumbered_dofs, space_dofs_offset>>
insertion_vars == <<is_spaces_insertion_open, closing, dofs_view, openings>>
block_vars     == <<is_spaces_connectivity_open, spaces_connections,
                    extra_dofs_connectivity, extras>>
constraint_vars == <<are_equality_constraints_open, equality_constraints,
                     are_linear_constraints_open, linear_constraints>>
vars == <<numbering_vars, insertion_vars, block_vars, constraint_vars>>

-----------------------------------------------------------------------------
LocalDofs(t) == 0 .. (Size[t] - 1)

GlobalDofsOfTable(t) == {index_table[t][i] : i \in LocalDofs(t)}

GlobalDofs(s) == GlobalDofsOfTable(TableOf[s])

AddedSpaces == DOMAIN spaces_info

SpacesIn(list) == {list[i] : i \in 1 .. Len(list)}

\* std::min_element and std::max_element over the dofs view.
LeastOf(S)    == CHOOSE x \in S : \A y \in S : x <= y
GreatestOf(S) == CHOOSE x \in S : \A y \in S : x >= y

Init ==
  /\ index_table = [t \in Table |-> [i \in LocalDofs(t) |-> FirstDof[t] + i]]
  /\ is_spaces_insertion_open = FALSE
  /\ is_spaces_connectivity_open = FALSE
  /\ are_equality_constraints_open = FALSE
  /\ are_linear_constraints_open = FALSE
  /\ closing = FALSE
  /\ spaces_info = [s \in {} |-> [min |-> 0, max |-> 0]]
  /\ spaces_with_original_dofs = << >>
  /\ spaces_with_renumbered_dofs = << >>
  /\ space_dofs_offset = 0
  /\ dofs_view = {}
  /\ spaces_connections = [b \in {} |-> [use |-> FALSE, extra |-> {}]]
  /\ extra_dofs_connectivity = {}
  /\ equality_constraints = {}
  /\ linear_constraints = {}
  /\ openings = 0
  /\ extras = 0

-----------------------------------------------------------------------------
(* Phase 1: insertion of the spaces.                                         *)

SpacesInsertionOpen ==
  /\ ~closing
  /\ openings < MaxOpenings
  /\ is_spaces_insertion_open' = TRUE
  /\ openings' = openings + 1
  /\ UNCHANGED <<closing, dofs_view, numbering_vars, block_vars, constraint_vars>>

\* What add_space records of s: the ids its dofs have at this moment.
InfoOf(s) == [min |-> LeastOf(GlobalDofs(s)), max |-> GreatestOf(GlobalDofs(s))]

\* A variant that lists every space again when one is added.
EverySpaceListed(s) == spaces_with_renumbered_dofs \o Append(spaces_with_original_dofs, s)

\* The spaces to renumber once s is added.
OriginalsAfterAdding(s) == Append(spaces_with_original_dofs, s)

\* add_space asserts that s is new; it does not look at the insertion flag,
\* clients that follow the documentation do.
AddSpace(s) ==
  /\ ~closing
  /\ DocumentedUse => is_spaces_insertion_open
  /\ s \notin AddedSpaces
  /\ spaces_info' = [r \in AddedSpaces \cup {s} |->
                       IF r = s THEN InfoOf(s) ELSE spaces_info[r]]
  /\ spaces_with_original_dofs' = OriginalsAfterAdding(s)
  /\ UNCHANGED <<index_table, spaces_with_renumbered_dofs, space_dofs_offset,
                 insertion_vars, block_vars, constraint_vars>>

\* A variant that chains the spaces still to renumber.
OriginalsToView == SpacesIn(spaces_with_original_dofs)

\* The ranges update_dofs_view chains.
SpacesToView == AddedSpaces

\* spaces_insertion_close(FALSE), or the part before the loop of (TRUE).
SpacesInsertionClose(automatic_dofs_renumbering) ==
  /\ ~closing
  /\ is_spaces_insertion_open
  /\ AddedSpaces # {}
  /\ is_spaces_insertion_open' = FALSE
  /\ closing' = automatic_dofs_renumbering
  /\ dofs_view' = IF automatic_dofs_renumbering THEN dofs_view ELSE SpacesToView
  /\ UNCHANGED <<openings, numbering_vars, block_vars, constraint_vars>>

\* A variant that forgets the cached extremes.
StaleInfo(s, offset) == spaces_info[s]

\* SpaceInfo::add_dofs_offset: the cached extremes and the dofs themselves.
OffsetInfo(s, offset) ==
  [min |-> spaces_info[s].min + offset, max |-> spaces_info[s].max + offset]

\* A variant that shifts the other way.
ShiftedBack(t, offset) == [i \in LocalDofs(t) |-> index_table[t][i] - offset]

OffsetTable(t, offset) == [i \in LocalDofs(t) |-> index_table[t][i] + offset]

\* A variant that reuses the last id of s.
OffsetAtLastDof(s) == OffsetInfo(s, space_dofs_offset).max

\* A variant that takes the number of dofs for the next free id.
OffsetBySize(s) == space_dofs_offset + Size[TableOf[s]] + 1

\* The offset of the next space to renumber, once s has been shifted.
OffsetAfter(s) == OffsetInfo(s, space_dofs_offset).max + 1

\* One iteration of the loop of perform_space_dofs_renumbering.
RenumberSpace ==
  /\ closing
  /\ spaces_with_original_dofs # << >>
  /\ LET s == Head(spaces_with_original_dofs)
         t == TableOf[s]
     IN  /\ index_table' = [index_table EXCEPT ![t] = OffsetTable(t, space_dofs_offset)]
         /\ spaces_info' = [spaces_info EXCEPT ![s] = OffsetInfo(s, space_dofs_offset)]
         /\ space_dofs_offset' = OffsetAfter(s)
         /\ spaces_with_renumbered_dofs' = Append(spaces_with_renumbered_dofs, s)
         /\ spaces_with_original_dofs' = Tail(spaces_with_original_dofs)
  /\ UNCHANGED <<insertion_vars, block_vars, constraint_vars>>

\* The end of the loop and the update_dofs_view after it.
RenumberingDone ==
  /\ closing
  /\ spaces_with_original_dofs = << >>
  /\ closing' = FALSE
  /\ dofs_view' = SpacesToView
  /\ UNCHANGED <<is_spaces_insertion_open, openings, numbering_vars,
                 block_vars, constraint_vars>>

-----------------------------------------------------------------------------
(* Phases 2 and 3: the blocks of the sparsity pattern and their dofs.        *)

SpacesConnectivityOpen ==
  /\ ~closing
  /\ ~is_spaces_connectivity_open
  /\ is_spaces_connectivity_open' = TRUE
  /\ UNCHANGED <<spaces_connections, extra_dofs_connectivity, extras,
                 numbering_vars, insertion_vars, constraint_vars>>

SpacesConnectivityClose ==
  /\ ~closing
  /\ is_spaces_connectivity_open
  /\ is_spaces_connectivity_open' = FALSE
  /\ UNCHANGED <<spaces_connections, extra_dofs_connectivity, extras,
                 numbering_vars, insertion_vars, constraint_vars>>

Blocks == DOMAIN spaces_connections

\* The spaces whose dofs clients name by their ids: by the documentation, once
\* the insertion phase is over and the dofs are renumbered.
NamedSpaces == {s \in AddedSpaces : DocumentedUse => ~is_spaces_insertion_open}

\* add_spaces_connection(r, c), and add_spaces_connection(r, use) for c = r.
\* The two-space form never uses the dofs of the space, also when r = c.
AddSpacesConnection(r, c, use) ==
  /\ ~closing
  /\ ~is_spaces_insertion_open
  /\ is_spaces_connectivity_open
  /\ {r, c} \subseteq AddedSpaces
  /\ use => r = c
  /\ Cardinality(Blocks) < MaxBlocks
  /\ <<r, c>> \notin Blocks
  /\ spaces_connections' = [b \in Blocks \cup {<<r, c>>} |->
                              IF b = <<r, c>> THEN [use |-> use, extra |-> {}]
                                              ELSE spaces_connections[b]]
  /\ UNCHANGED <<is_spaces_connectivity_open, extra_dofs_connectivity, extras,
                 numbering_vars, insertion_vars, constraint_vars>>

\* get_spaces_connection(r, c).add_dofs_connectivity(...): row dofs and column
\* dofs of the block, under the ids they have now.
AddBlockPairs(r, c, pairs) ==
  /\ ~closing
  /\ ~is_spaces_insertion_open
  /\ <<r, c>> \in Blocks
  /\ extras < MaxExtra
  /\ extras' = extras + 1
  /\ spaces_connections' = [spaces_connections EXCEPT ![<<r, c>>].extra = @ \cup pairs]
  /\ UNCHANGED <<is_spaces_connectivity_open, extra_dofs_connectivity,
                 numbering_vars, insertion_vars, constraint_vars>>

\* The calls of a client: one pair at a time.
AddBlockDofs(r, c) ==
  \E i \in GlobalDofs(r), j \in GlobalDofs(c) : AddBlockPairs(r, c, {<<i, j>>})

\* SpaceManager::add_dofs_connectivity: a pair that belongs to no block.
AddDofsConnectivity(r, c) ==
  /\ ~closing
  /\ {r, c} \subseteq NamedSpaces
  /\ extras < MaxExtra
  /\ extras' = extras + 1
  /\ \E i \in GlobalDofs(r), j \in GlobalDofs(c) :
       extra_dofs_connectivity' = extra_dofs_connectivity \cup {<<i, j>>}
  /\ UNCHANGED <<is_spaces_connectivity_open, spaces_connections,
                 numbering_vars, insertion_vars, constraint_vars>>

-----------------------------------------------------------------------------
(* Constraints on the global dofs.                                           *)

NumConstraints == Cardinality(equality_constraints) + Cardinality(linear_constraints)

EqualityConstraintsOpen ==
  /\ ~closing
  /\ ~are_equality_constraints_open
  /\ are_equality_constraints_open' = TRUE
  /\ UNCHANGED <<equality_constraints, are_linear_constraints_open, linear_constraints,
                 numbering_vars, insertion_vars, block_vars>>

EqualityConstraintsClose ==
  /\ ~closing
  /\ are_equality_constraints_open
  /\ are_equality_constraints_open' = FALSE
  /\ UNCHANGED <<equality_constraints, are_linear_constraints_open, linear_constraints,
                 numbering_vars, insertion_vars, block_vars>>

\* add_equality_constraint, with two different dofs of the managed spaces.
AddEqualityConstraint(r, c) ==
  /\ ~closing
  /\ are_equality_constraints_open
  /\ {r, c} \subseteq NamedSpaces
  /\ NumConstraints < MaxConstraints
  /\ \E master \in GlobalDofs(r), slave \in GlobalDofs(c) :
       /\ master # slave
       /\ equality_constraints' = equality_constraints \cup {<<master, slave>>}
  /\ UNCHANGED <<are_equality_constraints_open, are_linear_constraints_open,
                 linear_constraints, numbering_vars, insertion_vars, block_vars>>

\* remove_equality_constraints_redundancies: asks for no phase.  The
\* constructor of EqualityConstraint asserts that the two dofs differ.
RemoveEqualityConstraintsRedundancies ==
  /\ ~closing
  /\ IterationDefined(equality_constraints)
  /\ IterationDefined(WithoutRedundancies(equality_constraints))
  /\ equality_constraints' = WithoutRedundancies(equality_constraints)
  /\ UNCHANGED <<are_equality_constraints_open, are_linear_constraints_open,
                 linear_constraints, numbering_vars, insertion_vars, block_vars>>

LinearConstraintsOpen ==
  /\ ~closing
  /\ ~are_linear_constraints_open
  /\ are_linear_constraints_open' = TRUE
  /\ UNCHANGED <<linear_constraints, are_equality_constraints_open, equality_constraints,
                 numbering_vars, insertion_vars, block_vars>>

LinearConstraintsClose ==
  /\ ~closing
  /\ are_linear_constraints_open
  /\ are_linear_constraints_open' = FALSE
  /\ UNCHANGED <<linear_constraints, are_equality_constraints_open, equality_constraints,
                 numbering_vars, insertion_vars, block_vars>>

\* add_linear_constraint: an equation of a dof on other dofs.
AddConstraintOn(d, dofs) ==
  /\ ~closing
  /\ are_linear_constraints_open
  /\ NumConstraints < MaxConstraints
  /\ linear_constraints' = linear_constraints \cup {<<d, dofs>>}
  /\ UNCHANGED <<are_linear_constraints_open, are_equality_constraints_open,
                 equality_constraints, numbering_vars, insertion_vars, block_vars>>

\* The calls of a client: a dof of r and all the dofs of c.
AddLinearConstraint(r, c) ==
  /\ {r, c} \subseteq NamedSpaces
  /\ \E d \in GlobalDofs(r) : AddConstraintOn(d, GlobalDofs(c))

-----------------------------------------------------------------------------
Next ==
  \/ SpacesInsertionOpen
  \/ \E s \in Space : AddSpace(s)
  \/ \E renumber \in CloseArgs : SpacesInsertionClose(renumber)
  \/ RenumberSpace
  \/ RenumberingDone
  \/ SpacesConnectivityOpen
  \/ SpacesConnectivityClose
  \/ \E r, c \in Space, use \in BOOLEAN : AddSpacesConnection(r, c, use)
  \/ \E r, c \in Space : AddBlockDofs(r, c)
  \/ \E r, c \in Space : AddDofsConnectivity(r, c)
  \/ EqualityConstraintsOpen
  \/ EqualityConstraintsClose
  \/ \E r, c \in Space : AddEqualityConstraint(r, c)
  \/ RemoveEqualityConstraintsRedundancies
  \/ LinearConstraintsOpen
  \/ LinearConstraintsClose
  \/ \E r, c \in Space : AddLinearConstraint(r, c)

Spec == Init /\ [][Next]_vars

-----------------------------------------------------------------------------
(* What the manager answers.                                                 *)

\* SpacesConnection::get_row_dofs and get_col_dofs.
BlockRowDofs(b) ==
  (IF spaces_connections[b].use THEN GlobalDofs(b[1]) ELSE {})
    \cup {p[1] : p \in spaces_connections[b].extra}
BlockColDofs(b) ==
  (IF spaces_connections[b].use THEN GlobalDofs(b[2]) ELSE {})
    \cup {p[2] : p \in spaces_connections[b].extra}

GetRowDofs == (UNION {BlockRowDofs(b) : b \in Blocks}) \cup {p[1] : p \in extra_dofs_connectivity}
GetColDofs == (UNION {BlockColDofs(b) : b \in Blocks}) \cup {p[2] : p \in extra_dofs_connectivity}

\* The pairs of dofs that share an element of s.
ElementPairs(s) ==
  LET table == index_table[TableOf[s]]
  IN  UNION {{<<table[i], table[j]>> : i, j \in e} : e \in Elements[TableOf[s]]}

\* A variant that only follows the space of a block, never its extra pairs.
BlockPatternOfSpace(b) ==
  IF b[1] = b[2] /\ spaces_connections[b].use THEN ElementPairs(b[1]) ELSE {}

\* get_sparsity_pattern: only a diagonal block that asks for it uses the
\* elements of its space.
BlockPattern(b) ==
  (IF b[1] = b[2] /\ spaces_connections[b].use THEN ElementPairs(b[1]) ELSE {})
    \cup spaces_connections[b].extra

GetSparsityPattern == (UNION {BlockPattern(b) : b \in Blocks}) \cup extra_dofs_connectivity

-----------------------------------------------------------------------------
(* Properties.                                                               *)

SpaceInfo == [min : Nat, max : Nat]

Pairs == SUBSET (Nat \X Nat)

\* The shapes of the members of the SpaceManager and of the index tables.
TypeOK ==
  /\ index_table = [t \in Table |-> index_table[t]]
  /\ \A t \in Table : index_table[t] \in [LocalDofs(t) -> Nat]
  /\ is_spaces_insertion_open \in BOOLEAN
  /\ is_spaces_connectivity_open \in BOOLEAN
  /\ are_equality_constraints_open \in BOOLEAN
  /\ are_linear_constraints_open \in BOOLEAN
  /\ closing \in BOOLEAN
  /\ AddedSpaces \subseteq Space
  /\ spaces_info \in [AddedSpaces -> SpaceInfo]
  /\ spaces_with_original_dofs \in Seq(AddedSpaces)
  /\ spaces_with_renumbered_dofs \in Seq(AddedSpaces)
  /\ space_dofs_offset \in Nat
  /\ dofs_view \subseteq AddedSpaces
  /\ Blocks \subseteq AddedSpaces \X AddedSpaces
  /\ spaces_connections \in [Blocks -> [use : BOOLEAN, extra : Pairs]]
  /\ extra_dofs_connectivity \in Pairs
  /\ equality_constraints \in Pairs
  /\ linear_constraints \subseteq Nat \X SUBSET Nat
  /\ openings \in Nat
  /\ extras \in Nat

\* Renumbered spaces share no global dof id: the purpose of
\* perform_space_dofs_renumbering, over any number of insertion phases.
RenumberedDisjoint ==
  \A s, r \in SpacesIn(spaces_with_renumbered_dofs) :
    s # r => GlobalDofs(s) \cap GlobalDofs(r) = {}

\* The ids SpaceInfo caches (get_min_dofs_id, get_max_dofs_id) are the ones a
\* scan of the dofs of the space would find, before and after renumbering.
InfoCurrent ==
  \A s \in AddedSpaces : spaces_info[s] = InfoOf(s)

\* Once the insertion phase is closed the view of the manager covers every
\* space it manages (get_dofs_view is allowed exactly then).
ViewComplete ==
  ~is_spaces_insertion_open /\ ~closing => dofs_view = AddedSpaces

\* The ids in a view the manager has published never change again; a second
\* insertion phase (a mortar multiplier space) numbers the new spaces only.
PublishedDofsFixed ==
  [][\A s \in dofs_view : GlobalDofs(s)' = GlobalDofs(s)]_vars

\* The spaces that went through a renumbering use the ids 0 .. offset - 1,
\* each of them: no gaps for the rows of the system matrix.
NumberingDense ==
  UNION {GlobalDofs(s) : s \in SpacesIn(spaces_with_renumbered_dofs)}
    = 0 .. (space_dofs_offset - 1)

\* Dof ids the manager has stored in blocks and constraints are ids its spaces
\* have now: renumbering leaves no stored id behind.
StoredIdsLive ==
  LET managed == UNION {GlobalDofs(s) : s \in AddedSpaces}
  IN  /\ \A b \in Blocks : spaces_connections[b].extra \subseteq GlobalDofs(b[1]) \X GlobalDofs(b[2])
      /\ extra_dofs_connectivity \subseteq managed \X managed
      /\ ConstrainedDofs(equality_constraints) \subseteq managed
      /\ \A c \in linear_constraints : {c[1]} \cup c[2] \subseteq managed

\* The rows and columns of the sparsity pattern are exactly the row and column
\* dofs: trilinos_tools::build_graph sizes row number i of the row map with the
\* i-th row of the pattern.
PatternMatchesMaps ==
  /\ {p[1] : p \in GetSparsityPattern} = GetRowDofs
  /\ {p[2] : p \in GetSparsityPattern} = GetColDofs
=============================================================================
