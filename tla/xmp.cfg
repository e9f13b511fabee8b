SPECIFICATION Spec
CONSTANTS
  Files <- FilesDef
  MaxProps = 5
INVARIANTS TypeOK RowsAsShown LastPacketShown
