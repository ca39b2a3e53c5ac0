------------------------------- MODULE Field -------------------------------
(***************************************************************************)
(* The field of the strategy library (field.ts, with the parts of geom.ts,  *)
(* mathutil.ts and referee.ts it needs), for the rules of 2018.  Lengths    *)
(* are integers; the friendly goal is at negative y, and both teams run     *)
(* this code in coordinates of their own, turned by half a circle.          *)
(***************************************************************************)
EXTENDS Integers, FiniteSetsExt

CONSTANTS FieldWidthHalf, FieldHeightHalf,  \* World.Geometry
          GoalWidthHalf, GoalDepth, DefenseWidthHalf, DefenseHeight,
          FreeKickDist,  \* FreeKickDefenseDist + 0.10
          CornerDist,    \* cornerDist
          CornerRadius,  \* of what is the own corner (1 m)
          MaxRadius      \* bound on the radii and offsets looked at

ASSUME FieldAssumption ==
    /\ {FieldWidthHalf, FieldHeightHalf, GoalWidthHalf, GoalDepth,
        DefenseWidthHalf, DefenseHeight, FreeKickDist, CornerDist,
        CornerRadius, MaxRadius} \subseteq Nat \ {0}
    /\ GoalWidthHalf <= DefenseWidthHalf /\ DefenseHeight <= DefenseWidthHalf
    /\ DefenseWidthHalf + MaxRadius + FreeKickDist <= FieldWidthHalf - MaxRadius
    /\ DefenseHeight + MaxRadius + FreeKickDist <= FieldHeightHalf

Vector(x, y) == [x |-> x, y |-> y]
Neg(p) == Vector(-p.x, -p.y)
Plus(p, q) == Vector(p.x + q.x, p.y + q.y)
Minus(p, q) == Plus(p, Neg(q))
Dot(p, q) == p.x * q.x + p.y * q.y
DistanceToSq(p, q) == Dot(Minus(p, q), Minus(p, q))
Abs(n) == Max({n, -n})

\* The positions looked at: the field and what is around it.
Positions ==
    [x : -(FieldWidthHalf + 2) .. FieldWidthHalf + 2,
     y : -(FieldHeightHalf + 3) .. FieldHeightHalf + 3]
Radii == 0..MaxRadius

bound(vmin, par, vmax) == Min({Max({vmin, par}), vmax})
sign(value) == IF value > 0 THEN 1 ELSE IF value < 0 THEN -1 ELSE 0

\* geom.ts.  The corners of a rectangle come in either order; on its border is
\* not inside.
boundRect(p1, pos, p2) ==
    Vector(bound(p1.x, pos.x, p2.x), bound(p1.y, pos.y, p2.y))
insideRect(c1, c2, p) ==
    /\ Min({c1.x, c2.x}) < p.x /\ p.x < Max({c1.x, c2.x})
    /\ Min({c1.y, c2.y}) < p.y /\ p.y < Max({c1.y, c2.y})

checkTriangleOrientation(p1, p2, p3) ==
    LET v21 == Minus(p2, p1)
        v31 == Minus(p3, p1)
    IN  sign(v21.x * v31.y - v21.y * v31.x)

\* Barycentric coordinates, multiplied by their denominator.  That is 0 only for
\* a triangle without area, where the code compares with NaN: nothing is inside.
isInTriangle(a, b, c, p) ==
    LET v0 == Minus(c, a)   v1 == Minus(b, a)   v2 == Minus(p, a)
        denom == Dot(v0, v0) * Dot(v1, v1) - Dot(v0, v1) * Dot(v0, v1)
        u == Dot(v1, v1) * Dot(v0, v2) - Dot(v0, v1) * Dot(v1, v2)
        v == Dot(v0, v0) * Dot(v1, v2) - Dot(v0, v1) * Dot(v0, v2)
    IN  denom # 0 /\ u >= 0 /\ v >= 0 /\ u + v <= denom

\* A number num/den with den > 0.
Ratio(n, d) == IF d > 0 THEN [num |-> n, den |-> d] ELSE [num |-> -n, den |-> -d]
LessRatio(r, s) == r.num * s.den < s.num * r.den

\* Where the line through pos1 along dir1 meets the one through pos2 along
\* dir2: {} when they are parallel, or else {lambda1}.  The code also takes lines
\* for parallel whose directions differ by an angle with a sine below 1e-4, which
\* those of the small grid below never do.
intersectLineLine(pos1, dir1, pos2, dir2) ==
    LET normal2 == Vector(dir2.y, -dir2.x)
        den == Dot(normal2, dir1)
    IN  IF den = 0 THEN {} ELSE {Ratio(Dot(normal2, Minus(pos2, pos1)), den)}
-----------------------------------------------------------------------------
limitToField(pos, boundaryWidth) ==
    LET w == FieldWidthHalf + boundaryWidth
        h == FieldHeightHalf + boundaryWidth
    IN  Vector(bound(-w, pos.x, w), bound(-h, pos.y, h))

isInField(pos, boundaryWidth) ==
    LET h == FieldHeightHalf + boundaryWidth
    IN  /\ Abs(pos.x) <= GoalWidthHalf \/ Abs(pos.y) <= h
        /\ Abs(pos.y) <= h + GoalDepth
        /\ Abs(pos.x) <= FieldWidthHalf + boundaryWidth

\* The corners of a defense area made smaller by shrink on every side.
DefenseCorners(shrink, friendly) ==
    LET min == Vector(-DefenseWidthHalf + shrink,
                      FieldHeightHalf - DefenseHeight + shrink)
        max == Vector(DefenseWidthHalf - shrink, FieldHeightHalf - shrink)
    IN  IF friendly THEN [min |-> Neg(max), max |-> Neg(min)]
                    ELSE [min |-> min, max |-> max]

distanceToDefenseAreaSq(pos, friendly) ==
    LET c == DefenseCorners(0, friendly)
    IN  DistanceToSq(pos, boundRect(c.min, pos, c.max))

\* Mutant: the border of the area does not count.
InsideDefenseArea(pos, radius, friendly) ==
    distanceToDefenseAreaSq(pos, friendly) < radius * radius

isInDefenseArea(pos, radius, friendly) ==
    IF radius < 0
    THEN LET c == DefenseCorners(-radius, friendly)
         IN  /\ c.min.x <= c.max.x /\ c.min.y <= c.max.y
             /\ insideRect(c.min, c.max, pos)
    ELSE distanceToDefenseAreaSq(pos, friendly) <= radius * radius

\* Mutant: the extra distance is kept to the front only.
LeaveToLine(pos, extraLimit, dir) ==
    LET targety == dir * (FieldHeightHalf - DefenseHeight - extraLimit)
    IN  IF DefenseWidthHalf - Abs(pos.x) > dir * (pos.y - targety)
        THEN Vector(pos.x, targety)
        ELSE Vector(sign(pos.x) * DefenseWidthHalf, pos.y)

\* Out of the defense area at the goal line dir * FieldHeightHalf, to the front
\* or to a side, whichever is nearer.
LeaveDefenseArea(pos, extraLimit, dir) ==
    LET targety == dir * (FieldHeightHalf - DefenseHeight - extraLimit)
        targetx == DefenseWidthHalf + extraLimit
        dy == dir * (pos.y - targety)
        dx == targetx - Abs(pos.x)
    IN  IF dx > dy THEN Vector(pos.x, targety)
                   ELSE Vector(sign(pos.x) * targetx, pos.y)

\* keepAway: the referee's state asks for a distance to the opponent's area.
limitToAllowedField(pos, extraLimit, keepAway) ==
    LET opp == extraLimit + (IF keepAway THEN FreeKickDist ELSE 0)
        lim == limitToField(pos, -extraLimit)
    IN  IF isInDefenseArea(lim, extraLimit, TRUE)
        THEN LeaveDefenseArea(lim, extraLimit, -1)
        ELSE IF isInDefenseArea(lim, opp, FALSE)
             THEN LeaveDefenseArea(lim, opp, 1)
             ELSE lim

isInFriendlyGoal(pos) ==
    insideRect(Vector(-GoalWidthHalf, -FieldHeightHalf - GoalDepth),
               Vector(GoalWidthHalf, -FieldHeightHalf), pos)
isInOpponentGoal(pos) ==
    insideRect(Vector(GoalWidthHalf, FieldHeightHalf + GoalDepth),
               Vector(-GoalWidthHalf, FieldHeightHalf), pos)

isInAllowedField(pos, boundaryWidth) ==
    /\ isInField(pos, boundaryWidth)
    /\ \A friendly \in BOOLEAN : ~isInDefenseArea(pos, -boundaryWidth, friendly)
    /\ ~isInFriendlyGoal(pos) /\ ~isInOpponentGoal(pos)

isInOwnCorner(pos, opp) ==
    LET a == FieldWidthHalf - Abs(pos.x)
        b == (IF opp THEN FieldHeightHalf ELSE -FieldHeightHalf) - pos.y
    IN  a * a + b * b < CornerRadius * CornerRadius

NearSideLine(p) == Abs(p.x) > FieldWidthHalf - CornerDist
isOffensiveCornerKick(ball, state) ==
    /\ state \in {"DirectOffensive", "IndirectOffensive"}
    /\ FieldHeightHalf - ball.y < CornerDist /\ NearSideLine(ball)
\* Mutant: the goal line of the other side.
DefensiveKickUpField(ball, state) ==
    /\ state \in {"DirectDefensive", "IndirectDefensive", "Stop"}
    /\ FieldHeightHalf - ball.y > -CornerDist /\ NearSideLine(ball)
isDefensiveCornerKick(ball, state) ==
    /\ state \in {"DirectDefensive", "IndirectDefensive", "Stop"}
    /\ -FieldHeightHalf - ball.y > -CornerDist /\ NearSideLine(ball)

\* The set of the smaller lambda of the two lines that the half-line runs to.
nextLineCut(startPos, dir, offset) ==
    LET ahead(d) == IF d > 0 THEN 1 ELSE -1
        width == Vector(ahead(dir.x) * (FieldWidthHalf + offset), 0)
        height == Vector(0, ahead(dir.y) * (FieldHeightHalf + offset))
        side == intersectLineLine(startPos, dir, width, height)
        front == intersectLineLine(startPos, dir, height, width)
    IN  IF dir.x = 0 /\ dir.y = 0 THEN {}
        ELSE IF side = {} \/ (front # {} /\ \E s \in side, f \in front : ~LessRatio(s, f))
             THEN front ELSE side
-----------------------------------------------------------------------------
DefenseArea(friendly) ==
    {Vector(x, y) : x \in -DefenseWidthHalf..DefenseWidthHalf,
                    y \in IF friendly
                          THEN -FieldHeightHalf..(DefenseHeight - FieldHeightHalf)
                          ELSE (FieldHeightHalf - DefenseHeight)..FieldHeightHalf}

\* What isInDefenseArea says of a disc is true of the points of the area (l. 219
\* of field.ts: "inside/touching"): with a radius, the disc touches the area; with
\* a negative one, the disc lies in it and does not touch its border.  The two
\* tests for triangles, of barycentric coordinates and of orientations, agree on
\* the points of a small grid.
AreasMeanWhatTheySay ==
    /\ \A friendly \in BOOLEAN, p \in Positions, r \in Radii :
         /\ isInDefenseArea(p, r, friendly)
              <=> \E q \in DefenseArea(friendly) : DistanceToSq(p, q) <= r * r
         /\ r > 0 => (isInDefenseArea(p, -r, friendly)
              <=> /\ p \in DefenseArea(friendly)
                  /\ \A q \in Positions : DistanceToSq(p, q) <= r * r =>
                       \A d \in [x : -1..1, y : -1..1] :
                          Plus(q, d) \in DefenseArea(friendly))
    /\ \A a, b, c, p \in [x : 0..2, y : 0..2] :
         LET turns == {checkTriangleOrientation(a, b, p),
                       checkTriangleOrientation(b, c, p),
                       checkTriangleOrientation(c, a, p)}
         IN  isInTriangle(a, b, c, p) <=> /\ checkTriangleOrientation(a, b, c) # 0
                                          /\ ~({-1, 1} \subseteq turns)

\* limitToAllowedField ends where isInAllowedField is content, keeps the distance
\* the referee asks for, and leaves alone what is far enough from everything.
\* (Without an extra limit it does not: the middle of a goal line stays there.)
\* A ray from inside the field, in one of the directions of a small grid, ends on
\* the border, ahead of its start, and the first time it meets it.
LimitsAreKept ==
    /\ \A p \in Positions, e \in Radii \ {0}, keepAway \in BOOLEAN :
         LET l == limitToAllowedField(p, e, keepAway)
             opp == e + (IF keepAway THEN FreeKickDist ELSE 0)
         IN  /\ isInField(l, -e) /\ isInAllowedField(l, 1 - e)
             /\ distanceToDefenseAreaSq(l, TRUE) >= e * e
             /\ distanceToDefenseAreaSq(l, FALSE) >= opp * opp
             /\ limitToAllowedField(l, e, keepAway) = l
    /\ \A p \in Positions, d \in [x : -2..2, y : -2..2], o \in Radii :
         Abs(p.x) <= FieldWidthHalf - o /\ Abs(p.y) <= FieldHeightHalf - o
                                        /\ d # Vector(0, 0) =>
           \E r \in nextLineCut(p, d, -o) :
              LET cutx == Abs(p.x * r.den + d.x * r.num)
                  cuty == Abs(p.y * r.den + d.y * r.num)
                  w == (FieldWidthHalf - o) * r.den
                  h == (FieldHeightHalf - o) * r.den
              IN  r.num >= 0 /\ cutx <= w /\ cuty <= h /\ (cutx = w \/ cuty = h)

\* The teams agree: what one team calls its own, the other, in its coordinates,
\* calls the opponent's.
TeamsAgree ==
    \A p \in Positions :
       /\ \A r \in Radii, m \in {-1, 1} :
            isInDefenseArea(p, m * r, TRUE) <=> isInDefenseArea(Neg(p), m * r, FALSE)
       /\ isInFriendlyGoal(p) <=> isInOpponentGoal(Neg(p))
       /\ isInOwnCorner(p, FALSE) <=> isInOwnCorner(Neg(p), TRUE)
       /\ isOffensiveCornerKick(p, "DirectOffensive")
            <=> isDefensiveCornerKick(Neg(p), "DirectDefensive")
=============================================================================
