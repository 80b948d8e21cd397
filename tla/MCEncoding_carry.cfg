\* Two goroutines build batches out of shared pools; packets over small inputs.
SPECIFICATION Spec
CONSTANTS
  Owner = {o1, o2}
  Slab = {s1, s2, s3, s4, s5}
  Size = {0, 1, 3}
  MaxItems = 2
  Bucket <- BucketSmall
  Prefix = 1
  Reserve = 3
  Room = 5
  None = None
  MaxDepth = 3
  IdSpace = 12
  Namespace <- Namespaces
  EventName <- PlainNames
  Arg <- Args
  MaxArgs = 2
  Offset <- OffsetText
  Session <- Sessions
SYMMETRY Alike
INVARIANTS ViewsIntact 
