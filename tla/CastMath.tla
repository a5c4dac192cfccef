------------------------------ MODULE CastMath ------------------------------
(***************************************************************************)
(* The geometry of the collision backends: the strict overlap tests and    *)
(* the sweeps of collision/castmath.go, which the cp and resolv backends   *)
(* share and collision3d/math.go repeats.                                  *)
(*                                                                         *)
(* Points are <<x, y>>, a circle is [r], a box has half-extents [hw, hh].  *)
(* A sweep is horizontal: it starts at p and goes dx along x.  A fraction  *)
(* t of the code is represented by t * |dx|, the distance along the sweep, *)
(* so that every number is an integer whenever the square roots are        *)
(* (ExactRoots); the slab test of the other axis keeps its d = 0 case.     *)
(***************************************************************************)
EXTENDS Integers, FiniteSetsExt

NoHit == -1

Abs(n) == IF n < 0 THEN -n ELSE n
Sgn(n) == IF n < 0 THEN -1 ELSE 1
Clamp(v, lo, hi) == Max({lo, Min({v, hi})})
Circle(s) == "r" \in DOMAIN s

\* math.Sqrt, rounded down: exact on squares.
Sqrt(n) == CHOOSE k \in 0 .. n : k * k <= n /\ n < (k + 1) * (k + 1)
ExactRoot(n) == n < 0 \/ \E k \in 0 .. n : k * k = n

-----------------------------------------------------------------------------
(* One-shot overlaps.  The code's tests are strict; with touch they are not. *)

Within(m, n, touch) == m < n \/ (touch /\ m = n)

overlapBoxShape(q, hw, hh, e, s, touch) ==
    IF Circle(s)
    THEN LET dx == e[1] - Clamp(e[1], q[1] - hw, q[1] + hw)
             dy == e[2] - Clamp(e[2], q[2] - hh, q[2] + hh)
         IN  Within(dx * dx + dy * dy, s.r * s.r, touch)
    ELSE /\ Within(Abs(q[1] - e[1]), hw + s.hw, touch)
         /\ Within(Abs(q[2] - e[2]), hh + s.hh, touch)

overlapCircleShape(q, r, e, s, touch) ==
    LET dx == q[1] - (IF Circle(s) THEN e[1] ELSE Clamp(q[1], e[1] - s.hw, e[1] + s.hw))
        dy == q[2] - (IF Circle(s) THEN e[2] ELSE Clamp(q[2], e[2] - s.hh, e[2] + s.hh))
        total == IF Circle(s) THEN r + s.r ELSE r
    IN  Within(dx * dx + dy * dy, total * total, touch)

-----------------------------------------------------------------------------
(* Sweeps: the distance to the hit, or NoHit.                               *)

SegmentVsCircle(p, dx, c, r) ==
    LET disc == r * r - (p[2] - c[2]) * (p[2] - c[2])
        t == Sgn(dx) * (c[1] - p[1]) - Sqrt(disc)
    IN  IF dx = 0 \/ disc < 0 THEN NoHit
        ELSE IF Max({t, 0}) > Abs(dx) THEN NoHit ELSE Max({t, 0})

SegmentVsAABB(p, dx, e, hw, hh) ==
    LET tMin == Max({0, Sgn(dx) * (e[1] - p[1]) - hw})
        tMax == Min({Abs(dx), Sgn(dx) * (e[1] - p[1]) + hw})
        onAxis(a, half) == Abs(p[a] - e[a]) <= half
    IN  IF \/ ~onAxis(2, hh)
           \/ dx = 0 /\ ~onAxis(1, hw)
           \/ dx # 0 /\ tMin > tMax
        THEN NoHit
        ELSE IF dx = 0 THEN 0 ELSE tMin

SegmentVsRoundedRect(p, dx, e, ew, eh, r) ==
    LET x(t) == Abs(p[1] + Sgn(dx) * t - e[1])
        y == Abs(p[2] - e[2])
        corners == {t \in {SegmentVsCircle(p, dx, <<cx, cy>>, r) :
                            cx \in {e[1] - ew, e[1] + ew}, cy \in {e[2] - eh, e[2] + eh}} :
                      t # NoHit /\ x(t) >= ew /\ y >= eh}
        sides == {t \in {SegmentVsAABB(p, dx, e, ew + r, eh)} : t # NoHit /\ x(t) >= ew}
        ends == {t \in {SegmentVsAABB(p, dx, e, ew, eh + r)} : t # NoHit /\ y >= eh}
        cx == Max({x(0) - ew, 0})
        cy == Max({y - eh, 0})
        found == corners \cup sides \cup ends
    IN  IF found # {} THEN Min(found)
        ELSE IF cx * cx + cy * cy < r * r THEN 0 ELSE NoHit

-----------------------------------------------------------------------------
(* The query shapes: a ray is [dx], a box sweep [dx, hw, hh], a circle      *)
(* sweep [dx, r].                                                           *)

Ray(q) == {"hw", "r"} \cap DOMAIN q = {}

castRayVsShape(p, q, e, s) ==
    IF Circle(s) THEN SegmentVsCircle(p, q.dx, e, s.r)
    ELSE SegmentVsAABB(p, q.dx, e, s.hw, s.hh)

castBoxVsShape(p, q, e, s) ==
    IF Circle(s) THEN SegmentVsRoundedRect(p, q.dx, e, q.hw, q.hh, s.r)
    ELSE SegmentVsAABB(p, q.dx, e, s.hw + q.hw, s.hh + q.hh)

castCircleVsShape(p, q, e, s) ==
    IF Circle(s) THEN SegmentVsCircle(p, q.dx, e, q.r + s.r)
    ELSE SegmentVsRoundedRect(p, q.dx, e, s.hw, s.hh, q.r)

\* With z = 0 the sweeps of collision3d/math.go are the planar ones.
SegmentVsSphere(p, dx, c, r) == SegmentVsCircle(p, dx, c, r)
SegmentVsBox(p, dx, e, hw, hh) == SegmentVsAABB(p, dx, e, hw, hh)

raycastShape(p, q, e, s) ==
    IF Circle(s) THEN SegmentVsSphere(p, q.dx, e, s.r)
    ELSE SegmentVsBox(p, q.dx, e, s.hw, s.hh)

Cast(p, q, e, s) ==
    CASE Ray(q)    -> castRayVsShape(p, q, e, s)
      [] Circle(q) -> castCircleVsShape(p, q, e, s)
      [] OTHER     -> castBoxVsShape(p, q, e, s)

-----------------------------------------------------------------------------
(* The reference: a sweep meets a shape where the swept shape, moved by t,  *)
(* has a point in common with it.                                           *)

Grown(q, s) ==
    [ew |-> (IF Circle(s) THEN 0 ELSE s.hw) + (IF "hw" \in DOMAIN q THEN q.hw ELSE 0),
     eh |-> (IF Circle(s) THEN 0 ELSE s.hh) + (IF "hw" \in DOMAIN q THEN q.hh ELSE 0),
     r  |-> (IF Circle(s) THEN s.r ELSE 0) + (IF Circle(q) THEN q.r ELSE 0)]

Distance2(p, e, g) ==
    LET dx == Max({Abs(p[1] - e[1]) - g.ew, 0})
        dy == Max({Abs(p[2] - e[2]) - g.eh, 0})
    IN  dx * dx + dy * dy

MeetsAt(p, q, e, s) ==
    LET g == Grown(q, s)
        r2 == g.r * g.r
    IN  {t \in 0 .. Abs(q.dx) : Distance2(<<p[1] + Sgn(q.dx) * t, p[2]>>, e, g) <= r2}

\* The query shape at p and the shape at e have interior points in common.
Interiors(p, q, e, s) ==
    LET g == Grown(q, s)
    IN  IF g.r > 0 THEN Distance2(p, e, g) < g.r * g.r
        ELSE Abs(p[1] - e[1]) < g.ew /\ Abs(p[2] - e[2]) < g.eh

\* The sweep's roots are integers: the comparison with the reference is exact.
ExactRoots(p, q, e, s) ==
    LET g == Grown(q, s)
    IN  \A cy \in {e[2] - g.eh, e[2] + g.eh} : ExactRoot(g.r * g.r - (p[2] - cy) * (p[2] - cy))

\* A rounded shape on the far side of the sweep's start.
Behind(p, q, e, s) == Grown(q, s).r > 0 /\ Sgn(q.dx) * (e[1] - p[1]) < 0

=============================================================================
