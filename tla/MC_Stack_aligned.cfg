\* Sizes and amounts from zero to past max_size, including amounts that are
\* not page multiples.
CONSTANTS
  k1 = k1
  k2 = k2
  k3 = k3
  PAGE = 2
  Stacks <- MCStacks
  StartOf <- MCStartOf
  MaxSize = 4
  Amounts = {0, 1, 2, 3, 4, 5, 6}
SPECIFICATION Spec
INVARIANT BottomPageAligned
CHECK_DEADLOCK FALSE
