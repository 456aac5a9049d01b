--------------------------- MODULE MCRdbDecodeV14 ---------------------------
(***************************************************************************)
(* A bounded set of saved graphs: every value type, nested and empty      *)
(* arrays, empty vectors, nodes with no or two labels, entities with no,  *)
(* one or two properties, and deleted ids.  A string stands for its       *)
(* buffer by a number.                                                    *)
(***************************************************************************)
EXTENDS RdbDecodeV14

MCVals ==
    { SIValue(T_INT64, << -1 >>, << >>), SIValue(T_DOUBLE, << 2 >>, << >>),
      SIValue(T_STRING, << 8 >>, << >>), SIValue(T_BOOL, << 1 >>, << >>),
      SIValue(T_POINT, << 1, 2 >>, << >>), SIValue(T_VECTOR32F, << 3, 4 >>, << >>),
      SIValue(T_VECTOR32F, << >>, << >>), SI_NullVal,
      SIValue(T_ARRAY, << >>, << >>),
      SIValue(T_ARRAY, << >>, << SIValue(T_INT64, << 5 >>, << >>), SI_NullVal >>),
      SIValue(T_ARRAY, << >>, << SIValue(T_ARRAY, << >>, << SIValue(T_POINT, << 6, 7 >>, << >>) >>) >>) }

MCProps ==
    {<< >>} \cup {<< [attr |-> 0, val |-> v] >> : v \in MCVals}
            \cup {<< [attr |-> 1, val |-> SI_NullVal], [attr |-> 0, val |-> v] >> : v \in MCVals}

MCNodes ==
    {[id |-> 0, labels |-> << >>, props |-> << >>]}
    \cup {[id |-> 1, labels |-> << 0, 1 >>, props |-> ps] : ps \in MCProps}

MCEdges == {[id |-> 0, src |-> 0, dst |-> 1, relation |-> 2, props |-> ps] : ps \in MCProps}

MCGraphs ==
    [nodes : {<< >>} \cup {<< n >> : n \in MCNodes}
             \cup {<< [id |-> 0, labels |-> << 3 >>, props |-> << >>], n >> : n \in MCNodes},
     deleted_nodes : {<< >>, << 4, 5 >>},
     edges : {<< >>} \cup {<< e >> : e \in MCEdges},
     deleted_edges : {<< >>, << 6 >>}]

=============================================================================
