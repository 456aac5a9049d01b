---------------------------- MODULE MCBoltSession ----------------------------
(***************************************************************************)
(* The openings of a connection for the BoltSession runs: the magic       *)
(* followed by proposals for 5.4, 5.0 and 4.4, the magic followed by a    *)
(* single 5.0 proposal, and the magic written in the wrong byte order.    *)
(***************************************************************************)
EXTENDS BoltSession

\* a Bolt version proposal on the wire: (_, range, minor, major)
Proposal(major, minor) == << 0, 0, minor, major >>
NoProposal == << 0, 0, 0, 0 >>

MCHandshakes ==
    { << 96, 96, 176, 23 >> \o Proposal(5, 4) \o Proposal(5, 0) \o Proposal(4, 4) \o NoProposal,
      << 96, 96, 176, 23 >> \o Proposal(5, 0) \o NoProposal \o NoProposal \o NoProposal,
      << 23, 176, 96, 96 >> \o Proposal(5, 4) \o Proposal(5, 0) \o Proposal(4, 4) \o NoProposal }

=============================================================================
