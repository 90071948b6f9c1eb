------------------------------ MODULE Sharding ------------------------------
(***************************************************************************)
(* Tensor parallelism, as src/parallel_ops.ts has it: a tensor of the      *)
(* program is one tensor on every rank, and its parallelism says what the  *)
(* shards are to the whole.  Every operation picks a way by the            *)
(* parallelisms of its operands: a local one that leaves the result in     *)
(* some parallelism, or one that first gathers or reduces an operand, the  *)
(* latter in place.  A program is a sequence of operations on two tensors; *)
(* next to what the ranks hold, each tensor has what one device would      *)
(* have computed.                                                          *)
(*                                                                         *)
(*   tensor   the tensors x and y: parallelism, shard of each rank, and    *)
(*            ref, what one device would hold                              *)
(*   steps    operations done so far                                       *)
(*                                                                         *)
(* Numbers are taken modulo a prime, and kernels are functions that depend *)
(* on all they read: a value out of place shows.  Of each operation, what  *)
(* it does for matrices.                                                   *)
(***************************************************************************)
EXTENDS Integers, Sequences, FiniteSets, FiniteSetsExt

CONSTANTS W,          \* worldSize
          N,          \* rows and columns of a matrix; W divides N
          Prime,
          MaxSteps    \* bound: operations of a program

\* Assumed by the module that gives the constants their values.
ShardingAssumption ==
  W \in Nat \ {0} /\ N \in Nat \ {0} /\ N % W = 0 /\ Prime \in Nat \ {0}

VARIABLES tensor, steps

vars == <<tensor, steps>>

Ranks == 0..(W - 1)
Parallelism == {"Replicated", "Row", "Column", "PartialSum"}

-----------------------------------------------------------------------------
(* Matrices, and what kernels of one device do to them                   *)

Rows(m) == Len(m)
Cols(m) == Len(m[1])
SameShape(m, k) == Rows(m) = Rows(k) /\ Cols(m) = Cols(k)

Matrix(rows, cols, Entry(_, _)) == [i \in 1..rows |-> [j \in 1..cols |-> Entry(i, j) % Prime]]

Submatrix(m, i0, rows, j0, cols) == Matrix(rows, cols, LAMBDA i, j : m[i0 + i][j0 + j])
Plus(m, k) == Matrix(Rows(m), Cols(m), LAMBDA i, j : m[i][j] + k[i][j])
Times(m, k) == Matrix(Rows(m), Cols(m), LAMBDA i, j : m[i][j] * k[i][j])
Silu(m, k) == Matrix(Rows(m), Cols(m), LAMBDA i, j : (m[i][j] * m[i][j] + 1) * k[i][j])

\* A weight has a row for each output.
Dot(u, v) == MapThenSumSet(LAMBDA k : u[k] * v[k], DOMAIN u)
Project(m, weight) == Matrix(Rows(m), Rows(weight), LAMBDA i, j : Dot(m[i], weight[j]))

\* Depends on the complete row.
Normed(m, weight) == Matrix(Rows(m), Cols(m), LAMBDA i, j : m[i][j] * weight[1][j] * (1 + Dot(m[i], m[i])))

\* Depends on the position of the token.
Rotated(m, cos) == Matrix(Rows(m), Cols(m), LAMBDA i, j : m[i][j] * cos[i])

\* Each row by the expert it is routed to.
ByExpert(m, weights, ids) == Matrix(Rows(m), Rows(weights[1]), LAMBDA i, j : Dot(m[i], weights[ids[i]][j]))

Picked(m, ids) == Matrix(Len(ids), Cols(m), LAMBDA i, j : m[ids[i]][j])

Above(m, k) == Matrix(Rows(m) + Rows(k), Cols(m),
                      LAMBDA i, j : IF i <= Rows(m) THEN m[i][j] ELSE k[i - Rows(m)][j])
Beside(m, k) == Matrix(Rows(m), Cols(m) + Cols(k),
                       LAMBDA i, j : IF j <= Cols(m) THEN m[i][j] ELSE k[i][j - Cols(m)])
Joined(m, k, dim) == IF dim = 0 THEN Above(m, k) ELSE Beside(m, k)
Cut(m, dim, start, length) ==
  IF dim = 0 THEN Submatrix(m, start, length, 0, Cols(m)) ELSE Submatrix(m, 0, Rows(m), start, length)

\* The first n elements, row by row.
Filled(m, value, n) ==
  Matrix(Rows(m), Cols(m), LAMBDA i, j : IF (i - 1) * Cols(m) + j <= n THEN value ELSE m[i][j])

Flat(m) == [k \in 1..(Rows(m) * Cols(m)) |-> m[((k - 1) \div Cols(m)) + 1][((k - 1) % Cols(m)) + 1]]

\* reshape keeps the order of the elements.
Reshaped(m, rows, cols) == Matrix(rows, cols, LAMBDA i, j : Flat(m)[(i - 1) * cols + j])

-----------------------------------------------------------------------------
(* Tensors                                                               *)

\* The part of a matrix that rank r holds.
ShardOf(m, par, r) ==
  CASE par = "Column" -> Submatrix(m, r * (Rows(m) \div W), Rows(m) \div W, 0, Cols(m))
    [] par = "Row"    -> Submatrix(m, 0, Rows(m), r * (Cols(m) \div W), Cols(m) \div W)
    [] OTHER          -> m

Sharded(par, Shard(_)) == [par |-> par, shards |-> [r \in Ranks |-> Shard(r)]]

H2d(m, par) == Sharded(par, LAMBDA r : ShardOf(m, par, r))

\* A sum split over the ranks: what a projection leaves.
Parts(m) ==
  Sharded("PartialSum", LAMBDA r :
    Matrix(Rows(m), Cols(m), LAMBDA i, j : IF r = 0 THEN m[i][j] - (W - 1) * (i + 2 * j) ELSE i + 2 * j))

Holding(m, par) == IF par = "PartialSum" THEN Parts(m) ELSE H2d(m, par)

SumOfShards(t) ==
  LET s == t.shards
  IN Matrix(Rows(s[0]), Cols(s[0]), LAMBDA i, j : MapThenSumSet(LAMBDA r : s[r][i][j], Ranks))

D2h(t) ==
  LET s == t.shards
      h == Rows(s[0])
      w == Cols(s[0])
  IN CASE t.par = "Replicated" -> s[0]
       [] t.par = "PartialSum" -> SumOfShards(t)
       [] t.par = "Column" -> Matrix(h * W, w, LAMBDA i, j : s[(i - 1) \div h][((i - 1) % h) + 1][j])
       [] t.par = "Row" -> Matrix(h, w * W, LAMBDA i, j : s[(j - 1) \div w][i][((j - 1) % w) + 1])

TotalRows(t) == IF t.par = "Column" THEN W * Rows(t.shards[0]) ELSE Rows(t.shards[0])
TotalCols(t) == IF t.par = "Row" THEN W * Cols(t.shards[0]) ELSE Cols(t.shards[0])

AllGather(t) ==
  IF t.par = "Replicated" THEN t ELSE Sharded("Replicated", LAMBDA r : D2h(t))

AllReduce(t) == Sharded("Replicated", LAMBDA r : SumOfShards(t))

\* In place, when the tensor is a sum.
Reduced(t) == IF t.par = "PartialSum" THEN AllReduce(t) ELSE t

Replicate(t) == AllGather(Reduced(t))

TryNarrowToColumnParallel(t) ==
  IF t.par = "Replicated" /\ TotalRows(t) % W = 0
  THEN Sharded("Column", LAMBDA r : ShardOf(t.shards[r], "Column", r))
  ELSE t

SliceToRowParallel(t) == Sharded("Row", LAMBDA r : ShardOf(t.shards[r], "Row", r))

RedistributeToColumn(t) ==
  IF t.par = "Column" THEN t ELSE TryNarrowToColumnParallel(AllGather(t))

\* reshape: rows of a column split into heads are a column of heads.
ReshapeParallelism(t, rows, cols) ==
  CASE t.par = "Row" /\ cols # TotalCols(t) /\ rows % W = 0 -> "Column"
    [] t.par = "Column" /\ rows # TotalRows(t) /\ cols % W = 0 -> "Row"
    [] OTHER -> t.par

Reshape(t, rows, cols) ==
  LET par == ReshapeParallelism(t, rows, cols)
  IN Sharded(par, LAMBDA r :
       Reshaped(t.shards[r], IF par = "Column" THEN rows \div W ELSE rows,
                             IF par = "Row" THEN cols \div W ELSE cols))

Local(par, x, Op(_)) == Sharded(par, LAMBDA r : Op(x.shards[r]))
Local2(par, x, y, Op(_, _)) == Sharded(par, LAMBDA r : Op(x.shards[r], y.shards[r]))
-----------------------------------------------------------------------------
(* Operations on tensors.  What is reduced in place is in the callers.   *)

\* linear, once a sum that must be reduced has been.
Linear(x, w) ==
  CASE w.par = "Column" /\ x.par = "Replicated" -> Local2("Row", x, w, Project)
    [] w.par = "Row" /\ x.par = "Row" -> Local2("PartialSum", x, w, Project)
    [] w.par = "Replicated" /\ x.par \in {"Replicated", "Column", "PartialSum"} ->
         Local2(x.par, x, w, Project)
    [] w.par = "PartialSum" /\ x.par = "Replicated" -> Local2("PartialSum", x, w, Project)
    [] w.par = "Row" /\ x.par = "Replicated" -> Local2("Replicated", x, AllGather(w), Project)
    [] w.par = "Row" /\ x.par = "Column" -> Local2("Column", x, AllGather(w), Project)
    [] w.par = "Replicated" /\ x.par = "Row" -> Local2("Replicated", AllGather(x), w, Project)
    [] w.par = "Column" /\ x.par \in {"Row", "Column"} -> Local2("Row", AllGather(x), w, Project)

\* Distributivity lets a sum through a replicated weight; before any other the
\* sum is reduced.
LinearOperand(x, w) == IF w.par = "Replicated" THEN x ELSE Reduced(x)

\* What elementwiseBinary combines shard by shard, where no operand is a sum
\* unless the operation allows it.
ElementwiseOperands(x, y) ==
  CASE x.par = y.par -> [par |-> x.par, x |-> x, y |-> y]
    [] "PartialSum" \in {x.par, y.par} ->
         [par |-> "PartialSum", x |-> IF x.par = "PartialSum" THEN x ELSE AllGather(x),
                                y |-> IF y.par = "PartialSum" THEN y ELSE AllGather(y)]
    [] OTHER -> [par |-> "Replicated", x |-> AllGather(x), y |-> AllGather(y)]

Elementwise(x, y, Op(_, _)) ==
  LET operands == ElementwiseOperands(x, y)
  IN Local2(operands.par, operands.x, operands.y, Op)

\* Mutant: every rank adds the replicated operand.
AddEverywhere(x, y) == Elementwise(x, y, Plus)

\* A replicated tensor is added to a sum once.
Add(x, y) ==
  IF {x.par, y.par} = {"PartialSum", "Replicated"}
  THEN Sharded("PartialSum", LAMBDA r :
         IF r = 0 THEN Plus(x.shards[0], y.shards[0])
         ELSE IF x.par = "PartialSum" THEN x.shards[r] ELSE y.shards[r])
  ELSE Elementwise(x, y, Plus)

SiluAndMul(x, y) ==
  IF x.par = y.par THEN Local2(x.par, x, y, Silu)
  ELSE Local2("Replicated", AllGather(x), AllGather(y), Silu)

\* Row tensors lack the rest of the row.
Rmsnorm(x, w) ==
  LET operand == IF x.par = "Row" THEN AllGather(x) ELSE x
  IN Local2(operand.par, operand, w, Normed)

Layernorm(x, w) ==
  LET operand == IF x.par \in {"Row", "Column"} THEN AllGather(x) ELSE x
  IN Local2("Replicated", operand, w, Normed)

\* Row plus a sum: each rank puts its columns into its part of the sum.
RowIntoSum(x, y) ==
  AllReduce(Sharded("PartialSum", LAMBDA r :
    LET w == Cols(x.shards[r])
        padded == Matrix(Rows(x.shards[r]), w * W, LAMBDA i, j :
                    IF j - 1 \in (r * w)..(r * w + w - 1) THEN x.shards[r][i][j - r * w] ELSE 0)
    IN Plus(padded, y.shards[r])))

FusedResidual(x, y) ==
  IF x.par = "Row" /\ y.par = "PartialSum" THEN RowIntoSum(x, y)
  ELSE Local2("Replicated", Replicate(x), Replicate(y), Plus)

Embedding(table, ids) == Local(table.par, table, LAMBDA m : Picked(m, ids))

\* cat on a dimension that is not the sharded one is local.
Cat(x, y, dim) ==
  CASE dim # 1 /\ x.par = "Row" /\ y.par = "Row" ->
         Local2("Row", x, y, LAMBDA m, k : Joined(m, k, dim))
    [] dim # 1 /\ {x.par, y.par} = {"Row", "Replicated"} ->
         Local2("Row", IF x.par = "Row" THEN x ELSE SliceToRowParallel(x),
                       IF y.par = "Row" THEN y ELSE SliceToRowParallel(y),
                LAMBDA m, k : Joined(m, k, dim))
    [] OTHER -> Local2("Replicated", Replicate(x), Replicate(y), LAMBDA m, k : Joined(m, k, dim))

Slice(x, dim, start, length) ==
  Local("Replicated", Replicate(x), LAMBDA m : Cut(m, dim, start, length))

Narrow(x, start, length) == Local(x.par, x, LAMBDA m : Cut(m, 0, start, length))

IndexSelect(x, ids) == Local(x.par, x, LAMBDA m : Picked(m, ids))

\* The rows of the table of cosines that belong to the rank's tokens.
ApplyRotaryPosEmb(x, cos) ==
  Sharded(x.par, LAMBDA r :
    LET first == IF x.par = "Column" THEN r * Rows(x.shards[r]) ELSE 0
    IN Rotated(x.shards[r], [i \in 1..Rows(x.shards[r]) |-> cos[first + i]]))

\* Experts are sharded over their outputs for a replicated input, over their
\* inputs for a row.
MulMatId(x, weights, ids) ==
  IF x.par = "Replicated"
  THEN Sharded("Row", LAMBDA r :
         ByExpert(x.shards[r], [e \in DOMAIN weights |-> ShardOf(weights[e], "Column", r)], ids))
  ELSE Sharded("PartialSum", LAMBDA r :
         ByExpert(x.shards[r], [e \in DOMAIN weights |-> ShardOf(weights[e], "Row", r)], ids))

SwiGluMlpMoe(x, gate, up, down, ids) ==
  Sharded("PartialSum", LAMBDA r :
    LET Out(weights) == ByExpert(x.shards[r], [e \in DOMAIN weights |-> ShardOf(weights[e], "Column", r)], ids)
    IN ByExpert(Silu(Out(gate), Out(up)), [e \in DOMAIN down |-> ShardOf(down[e], "Row", r)], ids))

\* How many of the first n elements of the whole a rank has.
FillCount(x, n, r) ==
  LET width == TotalCols(x)
      shard == Rows(x.shards[r]) * Cols(x.shards[r])
      Clamp(k, most) == IF k < 0 THEN 0 ELSE IF k > most THEN most ELSE k
  IN CASE x.par = "Replicated" -> n
       [] x.par = "Column" -> Clamp(n - r * shard, shard)
       [] x.par = "Row" -> (n \div width) * (width \div W)
                           + Clamp((n % width) - r * (width \div W), width \div W)

Fill(x, value, n) == Sharded(x.par, LAMBDA r : Filled(x.shards[r], value, FillCount(x, n, r)))

\* A projection of groupedLinear: by a narrowed weight, gathered.
GroupedLinear(x, weight) == AllGather(Linear(Reduced(x), TryNarrowToColumnParallel(weight)))

\* rmsnorm of every head: [tokens, heads * dim] as [tokens * heads, dim] and back.
NormHeads(x, heads, w) ==
  LET dim == TotalCols(x) \div heads
      rows == TotalRows(x)
  IN Reshape(Rmsnorm(Reshape(x, rows * heads, dim), w), rows, heads * dim)

\* memcpy into a replicated tensor gathers, else shards are copied.
Memcpy(dst, src) ==
  IF dst.par = src.par THEN [dst EXCEPT !.shards = src.shards] ELSE AllGather(src)
-----------------------------------------------------------------------------
(* Operations that read a tensor: by row, value and place of the largest *)

\* A place of the largest element.
MaxAt(row) == CHOOSE j \in DOMAIN row : \A k \in DOMAIN row : row[k] < row[j] \/ (row[k] = row[j] /\ j <= k)

DeviceMax(m, offset) == [i \in 1..Rows(m) |-> [value |-> m[i][MaxAt(m[i])], at |-> MaxAt(m[i]) + offset]]

\* max: of a row, every rank's candidate is gathered, with its place in the whole.
MaxOf(t, offset) ==
  LET x == Reduced(t)
      w == Cols(x.shards[0])
  IN CASE x.par = "Replicated" -> DeviceMax(x.shards[0], offset)
       [] x.par = "Column" ->
            [i \in 1..TotalRows(x) |->
               DeviceMax(x.shards[(i - 1) \div Rows(x.shards[0])], offset)[((i - 1) % Rows(x.shards[0])) + 1]]
       [] x.par = "Row" ->
            LET local == [r \in Ranks |-> DeviceMax(x.shards[r], r * w + offset)]
            IN [i \in 1..Rows(x.shards[0]) |->
                  local[MaxAt([k \in 1..W |-> local[k - 1][i].value]) - 1][i]]

\* reduceSum: the sum over a row of columns is one over ranks.
ReduceSum(t) ==
  LET x == Local(IF t.par = "Row" THEN "PartialSum" ELSE t.par, t,
                 LAMBDA m : Matrix(Rows(m), 1, LAMBDA i, j : MapThenSumSet(LAMBDA k : m[i][k], DOMAIN m[i])))
  IN D2h(x)

\* quantizeFp8: one scale for each block of a row; a block is on one rank.
Scales(m, size) ==
  Matrix(Rows(m), Cols(m) \div size, LAMBDA i, b : Max({m[i][k] : k \in ((b - 1) * size + 1)..(b * size)}))
CanQuantize(t, size) == \A r \in Ranks : Cols(t.shards[r]) % size = 0
QuantizeScales(t, size) == D2h(Local(t.par, t, LAMBDA m : Scales(m, size)))
-----------------------------------------------------------------------------
(* Programs                                                              *)

Name == {"x", "y"}

Value(seed, i, j) == 3 * i * i + 7 * j * j + 5 * i * j + 2 * i + seed
Weight(seed) == Matrix(N, N, LAMBDA i, j : Value(seed, j, i))
Gamma(width) == Matrix(1, width, LAMBDA i, j : 2 * j + 1)
Expert == [e \in 1..2 |-> Weight(10 + e)]
Ids == [i \in 1..N |-> ((i * i + 1) % N) + 1]
Routing == [i \in 1..(2 * N) |-> (i % 2) + 1]
Cos == [i \in 1..(2 * N) |-> i + 1]

Tensor(t, ref) == [par |-> t.par, shards |-> t.shards, ref |-> ref]
Operand(n) == [par |-> tensor[n].par, shards |-> tensor[n].shards]
Ref(n) == tensor[n].ref
Other(n) == CHOOSE k \in Name : k # n

Init ==
  /\ steps = 0
  /\ \E par \in [Name -> Parallelism] :
       tensor = [n \in Name |->
                   LET m == Matrix(N, N, LAMBDA i, j : Value(IF n = "x" THEN 1 ELSE 4, i, j))
                   IN Tensor(Holding(m, par[n]), m)]

\* The result is one of the tensors from now on.  What the operation reduced in
\* place stays so.
Step(reduced, out, ref) ==
  /\ steps < MaxSteps
  /\ steps' = steps + 1
  /\ \E d \in Name :
       tensor' = [n \in Name |->
                    IF n = d THEN Tensor(out, ref)
                    ELSE Tensor(IF n \in reduced THEN Reduced(Operand(n)) ELSE Operand(n), Ref(n))]

\* Communication asked for by name: replicate, toColumnParallelMultiple,
\* sliceToRowParallel, memcpy.
Move(n) ==
  LET x == Operand(n)
  IN \/ Step({n}, Replicate(x), Ref(n))
     \/ x.par # "PartialSum" /\ TotalRows(x) % W = 0 /\ Step({}, RedistributeToColumn(x), Ref(n))
     \/ x.par = "Replicated" /\ Step({}, SliceToRowParallel(x), Ref(n))
     \/ /\ SameShape(Ref(n), Ref(Other(n)))
        /\ x.par # "PartialSum"
        /\ Operand(Other(n)).par \in {x.par, "Replicated"}
        /\ Step({}, Memcpy(Operand(Other(n)), x), Ref(n))

\* linear: a weight that is a sum takes a replicated input only.
DoLinear(n) ==
  \E par \in Parallelism :
    LET w == Holding(Weight(2), par)
        x == LinearOperand(Operand(n), w)
    IN /\ Cols(Ref(n)) = N
       /\ par = "PartialSum" => x.par = "Replicated"
       /\ Step(IF par = "Replicated" THEN {} ELSE {n}, Linear(x, w), Project(Ref(n), Weight(2)))

\* groupedLinear: all weights narrowed to columns, all results gathered at once.
DoGroupedLinear(n) ==
  /\ Cols(Ref(n)) = N
  /\ steps < MaxSteps
  /\ steps' = steps + 1
  /\ tensor' = [k \in Name |->
                  LET weight == Weight(IF k = "x" THEN 2 ELSE 3)
                  IN Tensor(GroupedLinear(Operand(n), H2d(weight, "Replicated")),
                            Project(Ref(n), weight))]

\* add; a sum and a sharded tensor have no caller (every rank would add the
\* gathered one).
DoAdd(n) ==
  LET x == Operand(n)
      y == Operand(Other(n))
  IN /\ SameShape(Ref(n), Ref(Other(n)))
     /\ "PartialSum" \in {x.par, y.par} => {x.par, y.par} \subseteq {"PartialSum", "Replicated"}
     /\ Step({}, Add(x, y), Plus(Ref(n), Ref(Other(n))))

\* mul; two sums have no caller (the product of sums is not that of the parts).
DoMul(n) ==
  LET x == Operand(n)
      y == Operand(Other(n))
  IN /\ SameShape(Ref(n), Ref(Other(n)))
     /\ ~(x.par = "PartialSum" /\ y.par = "PartialSum")
     /\ Step({}, Elementwise(x, y, Times), Times(Ref(n), Ref(Other(n))))

\* siluAndMul refuses columns; two sums have no caller.
DoSiluAndMul(n) ==
  LET x == Operand(n)
      y == Operand(Other(n))
  IN /\ SameShape(Ref(n), Ref(Other(n)))
     /\ "Column" \notin {x.par, y.par}
     /\ ~(x.par = "PartialSum" /\ y.par = "PartialSum")
     /\ Step(Name, SiluAndMul(Reduced(x), Reduced(y)), Silu(Ref(n), Ref(Other(n))))

\* rmsnorm, and layernorm (of a sum it has no caller: it would take the parts).
DoNorm(n) ==
  LET x == Operand(n)
      gamma == H2d(Gamma(N), "Replicated")
  IN /\ Cols(Ref(n)) = N
     /\ \/ Step({n}, Rmsnorm(Reduced(x), gamma), Normed(Ref(n), Gamma(N)))
        \/ x.par # "PartialSum" /\ Step({}, Layernorm(x, gamma), Normed(Ref(n), Gamma(N)))

\* rmsnorm of every head, by reshape; columns and sums are not reshaped so.
DoNormHeads(n) ==
  LET x == Operand(n)
      heads == W
  IN /\ x.par \in {"Replicated", "Row"}
     /\ Cols(Ref(n)) = N
     /\ Step({}, NormHeads(x, heads, H2d(Gamma(N \div heads), "Replicated")),
             Reshaped(Normed(Reshaped(Ref(n), Rows(Ref(n)) * heads, N \div heads), Gamma(N \div heads)),
                      Rows(Ref(n)), N))

\* fusedAddRmsnorm: the residual is tensor y, what is normed tensor x.
DoFusedAddRmsnorm(n) ==
  LET residual == FusedResidual(Operand(n), Operand(Other(n)))
      ref == Plus(Ref(n), Ref(Other(n)))
  IN /\ SameShape(Ref(n), Ref(Other(n)))
     /\ Cols(Ref(n)) = N
     /\ steps < MaxSteps
     /\ steps' = steps + 1
     /\ tensor' = [k \in Name |->
                     IF k = "y" THEN Tensor(residual, ref)
                     ELSE Tensor(Rmsnorm(residual, H2d(Gamma(N), "Replicated")), Normed(ref, Gamma(N)))]

DoEmbedding ==
  \E par \in {"Row", "Replicated"} :
    Step({}, Embedding(H2d(Weight(5), par), Ids), Picked(Weight(5), Ids))

\* cat; two columns or two sums are gathered like everything else.
DoCat(n) ==
  \E dim \in {0, 1} :
    /\ SameShape(Ref(n), Ref(Other(n)))
    /\ Rows(Ref(n)) = N /\ Cols(Ref(n)) = N
    /\ Step(IF dim = 0 /\ {Operand(n).par, Operand(Other(n)).par} \subseteq {"Row", "Replicated"}
            THEN {} ELSE Name,
            Cat(Operand(n), Operand(Other(n)), dim), Joined(Ref(n), Ref(Other(n)), dim))

\* slice, and narrow (a view, of complete or row tensors).
DoCut(n) ==
  LET x == Operand(n)
      half == N \div 2
  IN \/ Rows(Ref(n)) > N /\ Step({n}, Slice(x, 0, half, N), Cut(Ref(n), 0, half, N))
     \/ Cols(Ref(n)) > N /\ Step({n}, Slice(x, 1, half, N), Cut(Ref(n), 1, half, N))
     \/ /\ Rows(Ref(n)) > N
        /\ x.par \in {"Replicated", "Row"}
        /\ Step({}, Narrow(x, half, N), Cut(Ref(n), 0, half, N))

DoIndexSelect(n) ==
  /\ Operand(n).par \in {"Replicated", "Row"}
  /\ Step({}, IndexSelect(Operand(n), Ids), Picked(Ref(n), Ids))

DoRotate(n) ==
  /\ Operand(n).par # "PartialSum"
  /\ Step({}, ApplyRotaryPosEmb(Operand(n), Cos), Rotated(Ref(n), Cos))

\* The experts' projections: of complete or row inputs, and all of a layer.
DoExperts(n) ==
  LET x == Operand(n)
      ids == [i \in 1..Rows(Ref(n)) |-> Routing[i]]
      Out(m) == ByExpert(m, Expert, ids)
  IN /\ Cols(Ref(n)) = N
     /\ \/ x.par \in {"Replicated", "Row"} /\ Step({}, MulMatId(x, Expert, ids), Out(Ref(n)))
        \/ /\ x.par = "Replicated"
           /\ Step({}, SwiGluMlpMoe(x, Expert, Expert, Expert, ids), Out(Silu(Out(Ref(n)), Out(Ref(n)))))

\* fill writes a prefix of the whole, whatever the shards; in place.
DoFill(n) ==
  \E k \in {1, N - 1, N + 1, 2 * N + (N \div 2)} :
    /\ steps < MaxSteps
    /\ Operand(n).par # "PartialSum"
    /\ steps' = steps + 1
    /\ tensor' = [tensor EXCEPT ![n] = Tensor(Fill(Operand(n), 9, k), Filled(Ref(n), 9, k))]

Next ==
  \/ \E n \in Name :
       \/ Move(n) \/ DoLinear(n) \/ DoGroupedLinear(n) \/ DoAdd(n) \/ DoMul(n) \/ DoSiluAndMul(n)
       \/ DoNorm(n) \/ DoNormHeads(n) \/ DoFusedAddRmsnorm(n) \/ DoCat(n) \/ DoCut(n)
       \/ DoIndexSelect(n) \/ DoRotate(n) \/ DoExperts(n) \/ DoFill(n)
  \/ DoEmbedding

Spec == Init /\ [][Next]_vars
-----------------------------------------------------------------------------
(* Properties                                                            *)

\* Whatever operations a program does, in whatever parallelism their operands
\* are, d2h of each tensor is what one device would have computed, and the
\* copies of a replicated one are the same.
ShardsAgree ==
  \A n \in Name :
    /\ D2h(Operand(n)) = Ref(n)
    /\ Operand(n).par = "Replicated" => \A r \in Ranks : Operand(n).shards[r] = Ref(n)

\* max, reduceSum and quantizeFp8 of a tensor, merged from what ranks find in
\* their shards, are those of the whole: places are those in the whole, and no
\* block of a scale is split.
ReadingsAgree ==
  \A n \in Name :
    LET x == Operand(n)
        m == Ref(n)
    IN /\ \A i \in 1..Rows(m) : MaxOf(x, 0)[i].value = m[i][MaxOf(x, 0)[i].at]
                                /\ \A j \in 1..Cols(m) : m[i][j] <= MaxOf(x, 0)[i].value
       /\ x.par \in {"Replicated", "Row"} =>
            ReduceSum(x) = Matrix(Rows(m), 1, LAMBDA i, j : Dot(m[i], [k \in 1..Cols(m) |-> 1]))
       /\ (x.par # "PartialSum" /\ CanQuantize(x, 2)) => QuantizeScales(x, 2) = Scales(m, 2)
=============================================================================
