---------------------------- MODULE RdbDecodeV14 ----------------------------
(***************************************************************************)
(* The RDB v14 graph-entity loaders of                                     *)
(* src/serializers/decoders/current/v14/decode_graph_entities.c.  An RDB   *)
(* payload is a sequence of typed module tokens (RedisModule_Save/Load     *)
(* Unsigned, Signed, Double, Float, StringBuffer).  Redis stores each      *)
(* token with its type; a load of another type, or past the end of the     *)
(* payload, is a short read, on which Redis stops the load (the module     *)
(* does not handle I/O errors), modelled as `aborted`.                     *)
(*                                                                         *)
(* The reference is the format written in the loaders' own comments: each *)
(* value is its SIType then its fields, an array its length then its       *)
(* elements, an entity its property count then (id, value) pairs, a node   *)
(* its id, label count, labels and entity, an edge its id, source,         *)
(* destination, relation and entity.  The loaders are run on the encoding *)
(* of every graph of a bounded set, and must rebuild it exactly, consuming *)
(* every token of their segment and no more.                               *)
(***************************************************************************)
EXTENDS Naturals, Sequences, SequencesExt

\* SIType codes (value.h is not in the repository): any distinct codes
T_INT64 == 1
T_DOUBLE == 2
T_STRING == 3
T_BOOL == 4
T_ARRAY == 5
T_POINT == 6
T_VECTOR32F == 7
T_NULL == 8

\* a value: its type, its scalar fields, and its elements (arrays)
SIValue(t, v, elems) == [t |-> t, v |-> v, elems |-> elems]
SI_NullVal == SIValue(T_NULL, << >>, << >>)

Tok(k, v) == [k |-> k, v |-> v]

\* The array length and the vector dim are truncated to 32 bits (uint,
\* uint32_t); lengths of 2^32 and more are beyond TLC's integers and are
\* not modelled, so the lengths are loaded as they are.

-----------------------------------------------------------------------------
(* The reference encoding, from the format comments                        *)

RECURSIVE EncodeValue(_)
EncodeSeq(xs) == FoldLeft(LAMBDA acc, x : acc \o EncodeValue(x), << >>, xs)
EncodeValue(x) ==
    << Tok("unsigned", x.t) >> \o
    CASE x.t \in {T_INT64, T_BOOL}     -> << Tok("signed", x.v[1]) >>
      [] x.t = T_DOUBLE                -> << Tok("double", x.v[1]) >>
      [] x.t = T_STRING                -> << Tok("string", x.v[1]) >>
      [] x.t = T_POINT                 -> << Tok("double", x.v[1]), Tok("double", x.v[2]) >>
      [] x.t = T_VECTOR32F             -> << Tok("unsigned", Len(x.v)) >> \o
                                          [i \in 1..Len(x.v) |-> Tok("float", x.v[i])]
      [] x.t = T_ARRAY                 -> << Tok("unsigned", Len(x.elems)) >> \o EncodeSeq(x.elems)
      [] x.t = T_NULL                  -> << >>

EncodeEntity(props) ==
    << Tok("unsigned", Len(props)) >> \o
    FoldLeft(LAMBDA acc, p : acc \o << Tok("unsigned", p.attr) >> \o EncodeValue(p.val),
             << >>, props)

EncodeNode(n) ==
    << Tok("unsigned", n.id), Tok("unsigned", Len(n.labels)) >> \o
    [i \in 1..Len(n.labels) |-> Tok("unsigned", n.labels[i])] \o EncodeEntity(n.props)

EncodeEdge(e) ==
    << Tok("unsigned", e.id), Tok("unsigned", e.src), Tok("unsigned", e.dst),
       Tok("unsigned", e.relation) >> \o EncodeEntity(e.props)

EncodeIds(ids) == [i \in 1..Len(ids) |-> Tok("unsigned", ids[i])]

-----------------------------------------------------------------------------
(* The loaders.  A load is [ok, val, pos]: whether it read what it expected, *)
(* what it built, and the index of the next token of the payload s.         *)

Load(s, p, k) ==
    IF p <= Len(s) /\ s[p].k = k THEN [ok |-> TRUE, v |-> s[p].v]
    ELSE [ok |-> FALSE, v |-> 0]

Fail(p) == [ok |-> FALSE, val |-> SI_NullVal, pos |-> p]
Got(val, p) == [ok |-> TRUE, val |-> val, pos |-> p]

\* a scalar value of type t with one field loaded as kind k
LoadScalar(s, p, t, k) ==
    LET f == Load(s, p, k) IN
    IF f.ok THEN Got(SIValue(t, << f.v >>, << >>), p + 1) ELSE Fail(p)

\* (mutation) the coordinates are taken in the wrong order
RdbLoadPointSwapped(s, p) ==
    LET lat == Load(s, p, "double")
        lon == Load(s, p + 1, "double")
    IN  IF lat.ok /\ lon.ok THEN Got(SIValue(T_POINT, << lon.v, lat.v >>, << >>), p + 2)
        ELSE Fail(p)

_RdbLoadPoint(s, p) ==
    LET lat == Load(s, p, "double")
        lon == Load(s, p + 1, "double")
    IN  IF lat.ok /\ lon.ok THEN Got(SIValue(T_POINT, << lat.v, lon.v >>, << >>), p + 2)
        ELSE Fail(p)

\* the float loop of _RdbLoadVector: dim floats into the vector
RECURSIVE LoadFloats(_, _, _, _)
LoadFloats(s, p, dim, acc) ==
    IF Len(acc) = dim THEN Got(SIValue(T_VECTOR32F, acc, << >>), p)
    ELSE LET f == Load(s, p, "float") IN
         IF f.ok THEN LoadFloats(s, p + 1, dim, Append(acc, f.v)) ELSE Fail(p)

_RdbLoadVector(s, p) ==
    LET dim == Load(s, p, "unsigned") IN
    IF dim.ok THEN LoadFloats(s, p + 1, dim.v, << >>) ELSE Fail(p)

RECURSIVE _RdbLoadSIValue(_, _), LoadElems(_, _, _, _)

\* the element loop of _RdbLoadSIArray
LoadElems(s, p, len, acc) ==
    IF Len(acc) = len THEN Got(SIValue(T_ARRAY, << >>, acc), p)
    ELSE LET e == _RdbLoadSIValue(s, p) IN
         IF e.ok THEN LoadElems(s, e.pos, len, Append(acc, e.val)) ELSE Fail(p)

_RdbLoadSIArray(s, p) ==
    LET len == Load(s, p, "unsigned") IN
    IF len.ok THEN LoadElems(s, p + 1, len.v, << >>) ELSE Fail(p)

\* T_NULL and every unknown type return Null and consume nothing more
_RdbLoadSIValue(s, p) ==
    LET t == Load(s, p, "unsigned") IN
    IF ~t.ok THEN Fail(p)
    ELSE CASE t.v = T_INT64     -> LoadScalar(s, p + 1, T_INT64, "signed")
           [] t.v = T_DOUBLE    -> LoadScalar(s, p + 1, T_DOUBLE, "double")
           [] t.v = T_STRING    -> LoadScalar(s, p + 1, T_STRING, "string")
           [] t.v = T_BOOL      -> LoadScalar(s, p + 1, T_BOOL, "signed")
           [] t.v = T_ARRAY     -> _RdbLoadSIArray(s, p + 1)
           [] t.v = T_POINT     -> _RdbLoadPoint(s, p + 1)
           [] t.v = T_VECTOR32F -> _RdbLoadVector(s, p + 1)
           [] OTHER             -> Got(SI_NullVal, p + 1)

\* the (id, value) loop of _RdbLoadEntity: n properties
RECURSIVE LoadProps(_, _, _, _)
LoadProps(s, p, n, acc) ==
    IF Len(acc) = n THEN [ok |-> TRUE, val |-> acc, pos |-> p]
    ELSE LET id == Load(s, p, "unsigned")
             v  == _RdbLoadSIValue(s, p + 1)
         IN  IF id.ok /\ v.ok
             THEN LoadProps(s, v.pos, n, Append(acc, [attr |-> id.v, val |-> v.val]))
             ELSE [ok |-> FALSE, val |-> acc, pos |-> p]

_RdbLoadEntity(s, p) ==
    LET n == Load(s, p, "unsigned") IN
    IF n.ok THEN LoadProps(s, p + 1, n.v, << >>) ELSE [ok |-> FALSE, val |-> << >>, pos |-> p]

\* `count` unsigned tokens (the label loop, the deleted-id loops)
RECURSIVE LoadIds(_, _, _, _)
LoadIds(s, p, count, acc) ==
    IF Len(acc) = count THEN [ok |-> TRUE, val |-> acc, pos |-> p]
    ELSE LET id == Load(s, p, "unsigned") IN
         IF id.ok THEN LoadIds(s, p + 1, count, Append(acc, id.v))
         ELSE [ok |-> FALSE, val |-> acc, pos |-> p]

\* one node: id, label count, labels, then its entity
LoadNode(s, p) ==
    LET id     == Load(s, p, "unsigned")
        nl     == Load(s, p + 1, "unsigned")
        labels == LoadIds(s, p + 2, nl.v, << >>)
        ent    == _RdbLoadEntity(s, labels.pos)
    IN  IF id.ok /\ nl.ok /\ labels.ok /\ ent.ok
        THEN [ok |-> TRUE, val |-> [id |-> id.v, labels |-> labels.val, props |-> ent.val],
              pos |-> ent.pos]
        ELSE [ok |-> FALSE, val |-> << >>, pos |-> p]

\* one edge: id, source, destination, relation, then its entity
LoadEdge(s, p) ==
    LET f   == [i \in 0..3 |-> Load(s, p + i, "unsigned")]
        ent == _RdbLoadEntity(s, p + 4)
    IN  IF (\A i \in 0..3 : f[i].ok) /\ ent.ok
        THEN [ok |-> TRUE, val |-> [id |-> f[0].v, src |-> f[1].v, dst |-> f[2].v,
                                      relation |-> f[3].v, props |-> ent.val],
              pos |-> ent.pos]
        ELSE [ok |-> FALSE, val |-> << >>, pos |-> p]

\* the loop of RdbLoadNodes_v14: `count` nodes
RECURSIVE LoadNodes(_, _, _, _)
LoadNodes(s, p, count, acc) ==
    IF Len(acc) = count THEN [ok |-> TRUE, val |-> acc, pos |-> p]
    ELSE LET r == LoadNode(s, p) IN
         IF r.ok THEN LoadNodes(s, r.pos, count, Append(acc, r.val))
         ELSE [ok |-> FALSE, val |-> acc, pos |-> p]

\* the loop of RdbLoadEdges_v14: `count` edges
RECURSIVE LoadEdges(_, _, _, _)
LoadEdges(s, p, count, acc) ==
    IF Len(acc) = count THEN [ok |-> TRUE, val |-> acc, pos |-> p]
    ELSE LET r == LoadEdge(s, p) IN
         IF r.ok THEN LoadEdges(s, r.pos, count, Append(acc, r.val))
         ELSE [ok |-> FALSE, val |-> acc, pos |-> p]

-----------------------------------------------------------------------------
(* The loaders run on the payload segments of one graph.  Which counts the *)
(* payload header gives and in which order decode_v14 calls the loaders is *)
(* outside the repository: each loader is given its segment and the count  *)
(* the encoder wrote, in any order.                                        *)

CONSTANT Graphs   \* records [nodes, deleted_nodes, edges, deleted_edges]

Segments == {"nodes", "deleted_nodes", "edges", "deleted_edges"}

Encode(g) ==
    [nodes         |-> FoldLeft(LAMBDA acc, n : acc \o EncodeNode(n), << >>, g.nodes),
     deleted_nodes |-> EncodeIds(g.deleted_nodes),
     edges         |-> FoldLeft(LAMBDA acc, e : acc \o EncodeEdge(e), << >>, g.edges),
     deleted_edges |-> EncodeIds(g.deleted_edges)]

VARIABLES
    graph,     \* the graph that was saved
    payload,   \* payload[seg]: the tokens of each segment
    loaded,    \* loaded[seg]: the result of its loader
    done,      \* the segments loaded so far
    aborted    \* a short read stopped the load

vars == << graph, payload, loaded, done, aborted >>

Init ==
    /\ graph \in Graphs
    /\ payload = Encode(graph)
    /\ loaded = [seg \in Segments |-> [ok |-> TRUE, val |-> << >>, pos |-> 1]]
    /\ done = {}
    /\ aborted = FALSE

\* one loader call on its segment
Run(seg, r) ==
    /\ ~aborted /\ seg \notin done
    /\ loaded' = [loaded EXCEPT ![seg] = r]
    /\ done' = done \cup {seg}
    /\ aborted' = ~r.ok
    /\ UNCHANGED << graph, payload >>

RdbLoadNodes_v14 ==
    Run("nodes", LoadNodes(payload.nodes, 1, Len(graph.nodes), << >>))

RdbLoadDeletedNodes_v14 ==
    Run("deleted_nodes", LoadIds(payload.deleted_nodes, 1, Len(graph.deleted_nodes), << >>))

RdbLoadEdges_v14 ==
    Run("edges", LoadEdges(payload.edges, 1, Len(graph.edges), << >>))

RdbLoadDeletedEdges_v14 ==
    Run("deleted_edges", LoadIds(payload.deleted_edges, 1, Len(graph.deleted_edges), << >>))

Next ==
    \/ RdbLoadNodes_v14
    \/ RdbLoadDeletedNodes_v14
    \/ RdbLoadEdges_v14
    \/ RdbLoadDeletedEdges_v14

Spec == Init /\ [][Next]_vars

-----------------------------------------------------------------------------
\* Every loader that has run rebuilt exactly the entities that were saved,
\* with their labels, endpoints and nested property values, never read a
\* token of the wrong type or past its segment, and stopped at the end of
\* its segment: the decoders and the documented v14 format agree.
LoadsRoundTrip ==
    \A seg \in done :
        /\ loaded[seg].ok
        /\ loaded[seg].val = graph[seg]
        /\ loaded[seg].pos = Len(payload[seg]) + 1

=============================================================================
