\* What the build with ALLOW_ROTATE=0 writes for a vertical image.
SPECIFICATION Spec
CONSTANT Lines <- MCLines
INVARIANT BitsFixed
