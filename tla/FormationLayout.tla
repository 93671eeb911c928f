----------------------------- MODULE FormationLayout -----------------------------
(* The table of battle formations (FormationDatabase), and                       *)
(* FormationSimulator::generate_formation(): where the crossbows of a formation  *)
(* stand, in which salvo group, and how long each waits before it fires.         *)
(*                                                                               *)
(* In the table lengths are in centimetres; descriptions and utility scores,     *)
(* which only reach the answer's text, are left out.                             *)
(*                                                                               *)
(* sx and sz are space_x and space_z in centimetres; coordinates are in          *)
(* twentieths of a centimetre, relative to the centre and before the rotation,   *)
(* which moves no two crossbows closer.  Facing and elevation are left out.      *)
(* A place carries the id the code gives it, its position in the vector: a loop  *)
(* that stops at num_crossbows keeps the places whose id is below it.            *)
EXTENDS Integers, FiniteSets, FiniteSetsExt

Design(min, optimal, max, front, depth, safety) ==
    [min |-> min, optimal |-> optimal, max |-> max,
     front |-> front, depth |-> depth, safety |-> safety]

LineAbreast    == Design(3, 20, 200, 250, 100, 150)
Wedge          == Design(7, 37, 180, 200, 250, 180)
EchelonLeft    == Design(5, 30, 150, 280, 220, 200)
EchelonRight   == Design(5, 30, 150, 280, 220, 200)
Vee            == Design(9, 45, 200, 220, 300, 180)
ArcherParabola == Design(10, 50, 250, 240, 200, 180)
CoiledBow      == Design(12, 48, 240, 180, 180, 150)
CraneWing      == Design(11, 55, 220, 230, 280, 180)
SquareGrid     == Design(9, 36, 144, 250, 250, 200)
FishScale      == Design(8, 40, 200, 220, 150, 180)

\* FormationType as the integers of its enumerators.
Formations == 0..9

Database == [t \in Formations |->
    CASE t = 0 -> LineAbreast [] t = 1 -> Wedge     [] t = 2 -> EchelonLeft
      [] t = 3 -> EchelonRight [] t = 4 -> Vee      [] t = 5 -> ArcherParabola
      [] t = 6 -> CoiledBow   [] t = 7 -> CraneWing [] t = 8 -> SquareGrid
      [] t = 9 -> FishScale]

\* Any other number (99 is CUSTOM, and a query may hold any integer) finds the
\* value-initialised `unknown': no crossbow at all.
Get(type) == IF type \in Formations THEN Database[type] ELSE Design(0, 0, 0, 0, 0, 0)

\* get(name): an unknown name is CUSTOM, which the table does not hold; the Chinese name
\* of each formation is left out.
FormationNames == <<"line_abreast", "wedge", "echelon_left", "echelon_right", "vee",
                    "archer_parabola", "coiled_bow", "crane_wing", "square_grid", "fish_scale">>
GetByName(name) == Get(IF \E t \in Formations : FormationNames[t + 1] = name
                       THEN CHOOSE t \in Formations : FormationNames[t + 1] = name ELSE 99)

----------------------------------------------------------------------------------
Clamp(n, design) == Max({design.min, Min({n, design.max})})

Place(id, x, y, delay, group) ==
    [id |-> id, x |-> x, y |-> y, delay |-> delay, group |-> group]

\* The smallest number from lo on whose square times p is at least q: the code's
\* max(lo, ceil(sqrt(q / p))).
RootUp(lo, p, q) == CHOOSE r \in lo..16 :
                        p * r * r >= q /\ \A s \in lo..(r - 1) : p * s * s < q

Line(n, sx) ==
    {Place(i, (20 * i - 10 * (n - 1)) * sx, 0, (i % 3) * 100, i % 3) : i \in 0..(n - 1)}

\* Row r has 2r + 1 crossbows, so r * r stand in the rows before it.
WedgeRows(n, sx, sz) ==
    UNION {{Place(r * r + i, (20 * i - 10 * (2 * r + 1)) * sx, -20 * r * sz, r * 200, r % 4) :
               i \in {i \in 0..(2 * r) : r * r + i < n}} : r \in 0..13}

Echelon(dir, n, sx, sz) ==
    {Place(i, 12 * i * sx, dir * 16 * i * sz, (i % 5) * 80, i % 5) : i \in 0..(n - 1)}

\* Mutant: the first side takes only half of an odd number.
VeeHalfDown(n, sx, sz) ==
    {Place(s[1] * (n \div 2) + s[2] - 1, (2 * s[1] - 1) * 10 * s[2] * sx, 16 * s[2] * sz,
           s[2] * 120, (s[2] + s[1] * 3) % 6) : s \in {0, 1} \X (1..(n \div 2))}

VeeSides(n, sx, sz) ==
    LET half == (n + 1) \div 2
        slots == {s \in {0, 1} \X (1..half) : s[1] * half + s[2] - 1 < n}
    IN  {Place(s[1] * half + s[2] - 1, (2 * s[1] - 1) * 10 * s[2] * sx, 16 * s[2] * sz,
               s[2] * 120, (s[2] + s[1] * 3) % 6) : s \in slots}

Parabola(n, sx, sz) ==
    {LET c == 2 * i - (n - 1)
     IN  Place(i, (8 * n * c * sx) \div (n - 1),
                  (((6 * n * c * sz) \div (n - 1)) * c) \div (n - 1),
                  (i % 4) * 150, i % 4) : i \in 0..(n - 1)}

\* 500 sin, of a tenth of a degree in 0..3600, within one unit (Bhaskara's formula).
Sine(a) == IF a > 1800 THEN -((2000 * (a - 1800) * (3600 - a))
                                 \div (4050000 - (a - 1800) * (3600 - a)))
                       ELSE (2000 * a * (1800 - a)) \div (4050000 - a * (1800 - a))
Cosine(a) == Sine((a + 900) % 3600)

\* radius / space_x is 0.8 (r + 1), whatever the spacing, so a ring holds
\* max(6, (int) (1.6 pi (r + 1))) crossbows.
InRing(r) == Max({6, (50265 * (r + 1)) \div 10000})
BeforeRing(r) == MapThenSumSet(InRing, 0..(r - 1))
Rings(n) == RootUp(2, 355, 113 * n)
RingSlots(n) == UNION {{<<r, j>> : j \in {j \in 0..(InRing(r) - 1) : BeforeRing(r) + j < n}} :
                          r \in 0..(Rings(n) - 1)}
Coiled(n, sx) ==
    {LET r == s[1]
         j == s[2]
         theta == (3600 * j) \div InRing(r)
     IN  Place(BeforeRing(r) + j, (16 * (r + 1) * sx * Cosine(theta)) \div 500,
               (16 * (r + 1) * sx * Sine(theta)) \div 500,
               j * 50 + r * 300, (r + j) % 8) : s \in RingSlots(n)}

Crane(n, sx, sz) ==
    LET wing == n \div 3
        centre == n - 2 * wing
    IN  {Place(i, (18 * i - 9 * (centre - 1)) * sx, 0, 0, 0) : i \in 0..(centre - 1)}
        \cup {Place(centre + w * wing + i - 1,
                    (2 * w - 1) * (9 * (centre - 1) + 14 * i) * sx, 24 * i * sz,
                    i * 100, w + 1) : w \in {0, 1}, i \in 1..wing}

Grid(n, sx, sz) ==
    LET side == RootUp(1, 1, n)
    IN  {Place(side * s[1] + s[2], (20 * s[2] - 10 * (side - 1)) * sx,
               (20 * s[1] - 10 * (side - 1)) * sz,
               ((s[1] + s[2]) % 4) * 200, (s[1] + s[2]) % 4) :
            s \in {s \in (0..(side - 1)) \X (0..(side - 1)) : side * s[1] + s[2] < n}}

Fish(n, sx, sz) ==
    LET rows == RootUp(3, 10, 6 * n)
        cols == (n + rows - 1) \div rows
        InRow(r) == Min({cols, n - r * cols})
    IN  UNION {{Place(r * cols + c, (20 * c - 10 * (InRow(r) - 1) + 10 * (r % 2)) * sx,
                      20 * r * sz, r * 150, r) : c \in 0..(InRow(r) - 1)} : r \in 0..(rows - 1)}

(* The formation `type' of n crossbows, its spacing multiplied by num / den.     *)
Layout(type, n, num, den) ==
    LET d  == Get(type)
        k  == Clamp(n, d)
        sx == (d.front * num) \div den
        sz == (d.depth * num) \div den
    IN  CASE type = 0 -> Line(k, sx)              [] type = 1 -> WedgeRows(k, sx, sz)
          [] type = 2 -> Echelon(-1, k, sx, sz)   [] type = 3 -> Echelon(1, k, sx, sz)
          [] type = 4 -> VeeSides(k, sx, sz)      [] type = 5 -> Parabola(k, sx, sz)
          [] type = 6 -> Coiled(k, sx)            [] type = 7 -> Crane(k, sx, sz)
          [] type = 8 -> Grid(k, sx, sz)          [] type = 9 -> Fish(k, sx, sz)
          [] OTHER -> {}

(* generate_custom_formation(): as many places as the shortest of its lists.     *)
CustomLayout(types, positions, facings) ==
    LET n == Min({types, positions, facings})
    IN  {[id |-> i, delay |-> (i % 4) * 120, group |-> i % 4] : i \in 0..(n - 1)}

(* validate_placement(): no two crossbows closer than `gap' centimetres.         *)
Apart(p, q, gap) ==
    LET dx == p.x - q.x
        dy == p.y - q.y
        g  == 20 * gap
    IN  \/ dx \notin (1 - g)..(g - 1)
        \/ dy \notin (1 - g)..(g - 1)
        \/ dx * dx + dy * dy >= g * g
ValidPlacement(layout) ==
    \A p, q \in layout : p.id < q.id => Apart(p, q, 100)
=================================================================================
