\* MaxHashes = 3 keeps two entries side by side, and the third block evicts one.
CONSTANTS
  Subscriber = {c1, c2}
  Pinnable = {h1, h2, h3}
  MaxHashes = 3
SYMMETRY Alike
SPECIFICATION PinsSpec
INVARIANTS ReleasedByAll EntriesSound
