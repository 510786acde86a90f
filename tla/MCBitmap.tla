------------------------------ MODULE MCBitmap ------------------------------
EXTENDS Bitmap
=============================================================================
