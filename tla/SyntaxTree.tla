----------------------------- MODULE SyntaxTree -----------------------------
(***************************************************************************)
(* The syntax nodes of one call of begin as the objects they are           *)
(* (Syntax.h, SourceEvaluation.h).  SourceEvaluation keeps an output flat; *)
(* here it has references to nodes, which know their children and their    *)
(* parent, are shared by the outputs in the memo and on the call stack,    *)
(* and are cloned when they get a parent.                                  *)
(*                                                                         *)
(* The evaluator steps as it does in SourceEvaluation; every variable that *)
(* holds an output has one beside it that holds its node references.       *)
(***************************************************************************)
EXTENDS SourceEvaluation

Seqs == INSTANCE SequencesExt

VARIABLES
  heap,                        \* the SyntaxNodes ever made
  outNodes, bestNodes,         \* the nodes of `out' and of `best'
  accNodes,                    \* those of the frames on the stack
  memoNodes                    \* those of the records of the history

nodeVars == <<heap, outNodes, bestNodes, accNodes, memoNodes>>

-----------------------------------------------------------------------------
(* SyntaxNode.                                                             *)

NoParent == 0

SyntaxNode == [type     : AnyName,
               range    : Span,
               parent   : Nat,
               children : Seq(Nat)]
Heap       == Seq(SyntaxNode)

made(h, type, range) == Append(h, [type |-> type, range |-> range,
                                   parent |-> NoParent, children |-> <<>>])

append(h, p, child) == [h EXCEPT ![p].children = Append(@, child),
                                 ![child].parent = p]

(* h once p has been appended what each of clones, one after the other,    *)
(* puts at the end of a heap.                                              *)
adopted(h, p, clones) ==
  LET upto[k \in 0 .. Len(clones)] ==
        IF k = 0 THEN h
        ELSE LET g == upto[k - 1] IN append(clones[k][g], p, Len(g) + 1)
  IN  upto[Len(clones)]

(* Mutant: a clone has no children.                                        *)
Mutant_clone(h) ==
  [n \in DOMAIN h |-> [g \in Heap |-> made(g, h[n].type, h[n].range)]]

(* For each node of h, what a clone of it puts at the end of a heap.  The  *)
(* clone is the first node that is made.                                   *)
clone(h) ==
  LET copy[n \in DOMAIN h] ==
        [g \in Heap |->
           adopted(made(g, h[n].type, h[n].range), Len(g) + 1,
                   [k \in DOMAIN h[n].children |-> copy[h[n].children[k]]])]
  IN  copy

(* Mutant: the nodes themselves are appended.                              *)
Mutant_over(h, type, range, nodes) ==
  LET Adopt(g, child) == append(g, Len(h) + 1, child)
  IN  Seqs!FoldLeft(Adopt, made(h, type, range), nodes)

(* A node of a symbol over clones of the nodes of an output.               *)
over(h, type, range, nodes) ==
  adopted(made(h, type, range), Len(h) + 1,
          [k \in DOMAIN nodes |-> clone(h)[nodes[k]]])

-----------------------------------------------------------------------------
(* What the nodes are when the evaluator takes a step.                     *)

Memoised(record, nodes) ==
  memoNodes' = [k \in DOMAIN memoNodes \cup {record} |->
                  IF k = record THEN nodes ELSE memoNodes[k]]

(* A visit of rule r returns o; SyntaxAliasRuleStrategy may wrap it.       *)
Returned(r, o, nodes) ==
  IF Wraps(r, o)
  THEN /\ heap' = over(heap, lib.rules[r].name, out'.nodes[1].range, nodes)
       /\ outNodes' = <<Len(heap) + 1>>
  ELSE /\ outNodes' = nodes
       /\ UNCHANGED heap

HeldNodes   == IF Top.turn = 1 THEN outNodes ELSE accNodes[Len(stack)]
JoinedNodes == IF Top.turn = 1 THEN outNodes
                               ELSE accNodes[Len(stack)] \o outNodes

(* The nodes of what a frame completes with, when it has any.              *)
Passed ==
  CASE TopRule.kind \in {"Alias", "Optional", "Or"} -> outNodes
    [] TopRule.kind = "And"      -> HeldNodes
    [] TopRule.kind = "XOr"      -> IF Top.turn > 1 /\ Succeeds(out)
                                    THEN outNodes ELSE HeldNodes
    [] TopRule.kind = "Sequence" -> JoinedNodes
    [] TopRule.kind = "Repeat"   -> accNodes[Len(stack)]
    [] OTHER                     -> <<>>

(* ... and of what it keeps while it visits a child again.                 *)
KeptNodes ==
  CASE TopRule.kind = "Or"              -> <<>>
    [] TopRule.kind \in {"And", "XOr"}  -> HeldNodes
    [] OTHER                            -> JoinedNodes

Recalling == /\ VisitCompleted
             /\ Returned(rule, history[Record].out, memoNodes[Record])
             /\ UNCHANGED <<bestNodes, accNodes, memoNodes>>

WithoutNodes == /\ VisitCycle \/ MissingAlias \/ TerminalStep
                /\ Memoised(Record, <<>>)
                /\ outNodes' = <<>>
                /\ UNCHANGED <<heap, bestNodes, accNodes>>

Descending == /\ Descend
              /\ Memoised(Record, <<>>)
              /\ accNodes' = Append(accNodes, <<>>)
              /\ UNCHANGED <<heap, outNodes, bestNodes>>

Completing ==
  LET record == <<Top.rule, Top.key>>
      o      == history'[record].out
      nodes  == IF o.nodes = <<>> THEN <<>> ELSE Passed
  IN
    /\ ResumeStep
    /\ Len(stack') < Len(stack)
    /\ Memoised(record, nodes)
    /\ Returned(Top.rule, o, nodes)
    /\ accNodes' = Seqs!Front(accNodes)
    /\ UNCHANGED bestNodes

Continuing == /\ ResumeStep
              /\ Len(stack') = Len(stack)
              /\ accNodes' = [accNodes EXCEPT ![Len(stack)] = KeptNodes]
              /\ UNCHANGED <<heap, outNodes, bestNodes, memoNodes>>

Trying == TrySymbol /\ UNCHANGED nodeVars

Taking == /\ TakeResult
          /\ bestNodes' = IF best' # best THEN outNodes ELSE bestNodes
          /\ UNCHANGED <<heap, outNodes, accNodes, memoNodes>>

Returning ==
  \/ /\ Found
     /\ heap' = over(heap, winner, out'.nodes[1].range, bestNodes)
     /\ outNodes' = <<Len(heap) + 1>>
     /\ UNCHANGED <<bestNodes, accNodes, memoNodes>>
  \/ /\ NothingFound
     /\ outNodes' = <<>>
     /\ UNCHANGED <<heap, bestNodes, accNodes, memoNodes>>

TreeInit == /\ Init
            /\ heap = <<>>
            /\ outNodes = <<>>
            /\ bestNodes = <<>>
            /\ accNodes = <<>>
            /\ memoNodes = <<>>

TreeStep == \/ Recalling \/ WithoutNodes \/ Descending
            \/ Completing \/ Continuing \/ Trying \/ Taking \/ Returning

TreeNext == TreeStep \/ (Done /\ UNCHANGED <<vars, nodeVars>>)

TreeSpec == TreeInit /\ [][TreeNext]_<<vars, nodeVars>>

FairTreeSpec == TreeSpec /\ WF_<<vars, nodeVars>>(TreeStep)

-----------------------------------------------------------------------------
(* Properties.                                                             *)

(* Nodes as the flat outputs of SourceEvaluation have them: each before    *)
(* its children, which are one deeper than it is.                          *)
Indented(nodes) == [n \in 1 .. Len(nodes) |-> [nodes[n] EXCEPT !.depth = @ + 1]]

flat(h) ==
  LET below[n \in DOMAIN h] ==
        <<[type |-> h[n].type, range |-> h[n].range, depth |-> 0]>>
          \o Indented(Seqs!FlattenSeq([k \in DOMAIN h[n].children |->
                                         below[h[n].children[k]]]))
  IN  below

FlatIn(h, nodes) == Seqs!FlattenSeq([n \in DOMAIN nodes |-> flat(h)[nodes[n]]])

Flat(nodes) == FlatIn(heap, nodes)

(* The objects are the flat outputs, wherever an output is: in the memo,   *)
(* on the stack, returned or the best so far.  No node of an output that   *)
(* is kept has its tree changed by a parent it is given somewhere else.    *)
Represents ==
  /\ Flat(outNodes) = out.nodes
  /\ Flat(bestNodes) = best.nodes
  /\ DOMAIN memoNodes = DOMAIN history
  /\ \A k \in DOMAIN history : Flat(memoNodes[k]) = history[k].out.nodes
  /\ DOMAIN accNodes = DOMAIN stack
  /\ \A n \in DOMAIN stack : Flat(accNodes[n]) = stack[n].acc.nodes

(* A node that has been made is never touched again, neither its parent    *)
(* nor its children, although append writes both: only nodes no output     *)
(* holds yet are appended or appended to.                                  *)
NodesStay ==
  [][\A n \in DOMAIN heap : n \in DOMAIN heap' /\ heap'[n] = heap[n]
    ]_<<vars, nodeVars>>

Kept == UNION {Seqs!ToSet(nodes) :
                 nodes \in {outNodes, bestNodes}
                            \cup Seqs!ToSet(accNodes)
                            \cup {memoNodes[k] : k \in DOMAIN memoNodes}}

(* A node is a child of its parent, once, and of no other node, and a node *)
(* in an output has no parent: what is below a match is a tree, although   *)
(* the same node may be in several outputs, and twice in one.              *)
Trees ==
  /\ \A p \in DOMAIN heap : \A n \in DOMAIN heap[p].children :
       heap[heap[p].children[n]].parent = p
  /\ \A p, q \in DOMAIN heap :
       \A m \in DOMAIN heap[p].children, n \in DOMAIN heap[q].children :
         heap[p].children[m] = heap[q].children[n] => p = q /\ m = n
  /\ \A n \in Kept : heap[n].parent = NoParent

=============================================================================
