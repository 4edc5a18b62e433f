------------------------------- MODULE Phase1 -------------------------------
\* Phase 1 inside a process, seen two ways: the chain of messages and deposits
\* with its pairs of pieces (Phase1Chain), and the walks over trees and
\* particles that solve those pairs (PieceWalk).  A behaviour is one of them.
EXTENDS Phase1Chain

CONSTANTS Scenes, MinGrid

VARIABLES
  kind,      \* "chain" or "piece"
  scene, turn, who, todo, work, cert_rep, uf, group_number, walk_pool, cert_tip, edge_buf

Piece == INSTANCE PieceWalk

pieceVars == <<scene, turn, who, todo, work, cert_rep, uf, group_number, walk_pool, cert_tip,
               edge_buf>>

\* What the other behaviour uses is left at one value.
NoPiece ==
  /\ scene = <<>> /\ turn = "none" /\ who = <<>> /\ todo = <<>> /\ work = <<>>
  /\ cert_rep = <<>> /\ uf = <<>> /\ group_number = <<>> /\ walk_pool = <<>>
  /\ cert_tip = <<>> /\ edge_buf = <<>>
NoChain ==
  /\ links = CHOOSE l \in Layouts : TRUE
  /\ peSet = CHOOSE p \in Splits : TRUE
  /\ ~stealA

Phase1Init ==
  /\ Init
  /\ \/ kind = "chain" /\ NoPiece
     \/ kind = "piece" /\ NoChain /\ Piece!Init

OfChain == kind = "chain" /\ UNCHANGED <<kind, pieceVars>>
OfPiece == kind = "piece" /\ UNCHANGED <<kind, vars>>

Phase1Next == (OfChain /\ Next) \/ (OfPiece /\ Piece!Next)

Phase1Vars == <<kind, vars, pieceVars>>

\* Each PE's scheduler delivers the messages it has, and its handlers run on.
Phase1Spec ==
  /\ Phase1Init /\ [][Phase1Next]_Phase1Vars
  /\ \A q \in PEs : WF_Phase1Vars(OfChain /\ Step(q))

-----------------------------------------------------------------------------
\* When the process is done, every particle carries the least order its links
\* join it to, whatever certificate, memo, grid or split decided a pair; and before
\* that, what the memo of phase A calls connected is connected.  The application's
\* check, a union-find over a grid of its own, gives the same groups.
WalkExact == kind = "piece" => Piece!WalkExact /\ Piece!MemoSound /\ Piece!ReferenceAgrees

\* The chain ends: every PE reaches its contribution.
ChainEnds == <>(kind = "chain" => Finished)

=============================================================================
