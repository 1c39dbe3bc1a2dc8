----------------------------- MODULE MCFileData -----------------------------
(* File contents on their three ways: the client's read cache, the mount's *)
(* write buffers, and the frames that carry them.  The three share no      *)
(* state, so a behaviour explores the one that `part` names and leaves the *)
(* others as they started.                                                 *)
EXTENDS ReadCache, WriteBack, Wire

VARIABLE part

-----------------------------------------------------------------------------
(* Messages whose fields are at the edges of their ranges: the least and   *)
(* the greatest number, negative times, an empty name and one long enough  *)
(* for a length of two bytes.                                              *)
Sample(field) ==
    CASE field = "kind"   -> {0, 3}
      [] field = "u32"    -> {0, MaxU32}
      [] field = "u64"    -> {MaxU64 - 1}
      [] field = "i64"    -> {-1, MaxU64 \div 2}
      [] field = "varint" -> {0, MaxU64}
      [] field = "mode"   -> {MaxU32}
      [] field = "string" -> {<< >>, << 7, 0, 1, 2 >>}

RECURSIVE Bodies(_)
Bodies(layout) ==
    IF layout = << >> THEN {<< >>}
    ELSE {<< v >> \o rest : v \in Sample(Head(layout)), rest \in Bodies(Tail(layout))}

(* Beside one body of each kind: bulk reads with no path, with as many as  *)
(* are allowed, with items that were not read; a response that is too long *)
(* for a frame.                                                            *)
MCAnswer ==
    UNION {{<< t, b >> : b \in Bodies(Layout(t))} : t \in {u \in Range(MsgType) : ~EndsInList(u)}}
    \cup {<< "ReadManyRequest", << paths >> >> :
             paths \in {<< >>, << << << >> >> >>, << << << 1 >> >>, << << >> >> >>}}
    \cup {<< "ReadManyResponse", << items >> >> :
             items \in {<< << 0 >> >>, << << 1, << 7, 4 >> >>, << 0 >> >>}}
    \cup {<< "ReadResponse", << 0, [i \in 1..60 |-> 5] >> >>}

Zeros == << 0, 0, 0, 0 >>
Extremes == << 3, MaxU32, MaxU64, -1 >>

MCBatch ==
    {<< >>}
    \cup {<< << Upsert, << 1 >> >> \o a \o << 1 >> >> : a \in {Zeros, Extremes}}
    \cup {<< << k, << 2 >>, 0 >> >> : k \in {1, 2}}
    \cup {<< << 1, << >>, c, MaxU32 >> >> : c \in {4, 5}}
    \cup {<< << Upsert, << 1 >> >> \o Zeros \o << 1 >>, << 1, << >>, 3 >>, << 1, << 1 >>, 4, 9 >> >>}

MCListing ==
    {<< << 0 >> \o Zeros \o << << >> >> >>,
     << << 0 >> \o Zeros \o << << >> >>,
        << MaxU32 >> \o Zeros \o << << >> >>,
        << 1 >> \o Extremes \o << << 1, 2 >> >> >>}

-----------------------------------------------------------------------------
(* A batch is broadcast beside one answer and beside a listing; the other  *)
(* answers are sent alone.                                                 *)
MCInit ==
    /\ part \in {"cache", "buffers", "wire"}
    /\ Init /\ WBInit /\ WireInit
    /\ \/ work.ops = << >> \/ todo["session"][1].type \in {"Ok", "Snapshot"}
    /\ part # "wire" => work.ops = << >> /\ todo["session"][1].type = "Ping"
    /\ part # "buffers" => writeback

MCNext ==
    /\ part' = part
    /\ \/ part = "cache" /\ Next /\ UNCHANGED <<wbVars, wireVars>>
       \/ part = "buffers" /\ WBNext /\ UNCHANGED <<vars, wireVars>>
       \/ part = "wire" /\ WireNext /\ UNCHANGED <<vars, wbVars>>

MCSpec == MCInit /\ [][MCNext]_<<part, vars, wbVars, wireVars>>
=============================================================================
