CONSTANTS
  Texts <- MCTexts
  G = 2
  Alpha = 3
  L = 2
  Horizon = 2
SPECIFICATION GroupSpec
INVARIANTS NoEvasion SuccessAboveFailure LatentNotWorse
