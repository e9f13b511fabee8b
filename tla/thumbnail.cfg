\* One NEF of every kind, and every pair of some of them with other files.
SPECIFICATION Spec
CONSTANT Lines <- MCLines
INVARIANTS TypeOK SubIfdsLinked TagsLinked SegmentEnds RangesOwn
